---- MODULE Spec2Model ----
(***************************************************************************)
(* A model of rrr-rs: the schema lexer/parser (src/src/ast.rs), the        *)
(* oneline formatter and the JSON serializer (src/src/visitor.rs), the     *)
(* parameter stack (src/src/param.rs), the buffer walker                   *)
(* (src/src/walker.rs) and the container reader (src/src/reader.rs).       *)
(*                                                                         *)
(* Bytes are one-character strings; texts and buffers of text are          *)
(* sequences of them.  Binary buffers are sequences of numbers 0..255.     *)
(* Offsets are 0-based as in the source: byte i of the source is           *)
(* element i+1 of the sequence.                                            *)
(***************************************************************************)
EXTENDS Integers, Sequences, FiniteSets, TLC

VARIABLES
    \* the schema text handed to parse, and what became of it
    input,      \* the bytes of the schema text
    ntok,       \* how many lexemes the text was put together from
    lastlex,    \* the lexeme the text ends with
    pphase,     \* "edit" | "parsed" | "formatted" | "reparsed"
    presult,    \* parse(input)
    poutput,    \* SchemaOnelineDisplay(parse(input).ast)
    presult2,   \* parse(poutput)
    \* a JsonDisplay being formatted
    dschema,    \* JsonDisplay.schema
    drule,      \* JsonDisplay.rule
    dbuf,       \* JsonDisplay.buf
    ser,        \* the JsonSerializer of JsonDisplay::fmt
    dphase,     \* "idle" | "input" | "running" | "done"
    fmtresult,  \* what JsonDisplay::fmt came to: "" | "Ok" | "Err" | "Panic"
    \* a DataReader reading its stream
    stream,     \* the bytes of the inner reader
    rpos,       \* the position of the inner reader
    mbuf,       \* find_magic's buf
    rphase,     \* "idle" | "input" | "magic" | "header" | "fields" | "done" | "failed"
    rerror,     \* the message of the Error read failed with
    rmagic,     \* what find_magic returned
    roptions,   \* DataReader.options
    rmap,       \* read_header_fields' map
    rschema,    \* the Schema of the format field
    rraw,       \* read_body's buf before the match on compress_type
    rbody,      \* the body read returned
    \* a ParamStack and the calls made on it
    sparams,    \* the ParamStack
    scall,      \* the last call: its name, and the name and value passed
    sgot,       \* what the last call returned, if it was a get_value
    \* a second JsonDisplay over the same Schema and the same buffer
    dfresh,     \* a Schema parsed afresh from the same text, given to no JsonDisplay
    ser2,       \* the JsonSerializer of the second JsonDisplay::fmt
    d2phase,    \* "idle" | "input" | "running" | "done"
    fmtresult2, \* what the second JsonDisplay::fmt came to
    \* a string handed to json_escape_str
    einput,     \* the characters of the input, each the bytes of its UTF-8 encoding
    eout,       \* the bytes of the string json_escape_str returned
    ephase,     \* "idle" | "edit" | "escaped"
    \* a BufWalker and the calls made on it
    wbuf,       \* BufWalker.buf
    wpos,       \* BufWalker.pos
    wlast,      \* the last call: what was called, from where, what it returned
    \* DataReaderOptions values and the operation applied to them
    oa,         \* an option value
    ob,         \* another option value
    olast,      \* the last operation and what it returned
    \* a ValueTree and the calls made on it
    vtree,      \* the ValueTree: the values allocated, heads, completed
    vcalls,     \* the calls made so far and what each returned, in order
    vlast       \* the ValueTree the last call was made on

pvars == <<input, ntok, lastlex, pphase, presult, poutput, presult2>>
dvars == <<dschema, drule, dbuf, ser, dphase, fmtresult>>
hvars == <<roptions, rmap, rschema, rraw, rbody>>
rvars == <<stream, rpos, mbuf, rphase, rerror, rmagic, hvars>>

svars == <<sparams, scall, sgot>>
cvars == <<dfresh, ser2, d2phase, fmtresult2>>
evars == <<einput, eout, ephase>>
wvars == <<wbuf, wpos, wlast>>
ovars == <<oa, ob, olast>>
tvars == <<vtree, vcalls, vlast>>
xvars == <<cvars, evars, wvars, ovars, tvars>>
\* what the steps of one part of the model leave alone
besides_c == <<pvars, rvars, svars, evars, wvars, ovars, tvars>>
besides_e == <<pvars, dvars, rvars, svars, cvars, wvars, ovars, tvars>>
besides_w == <<pvars, dvars, rvars, svars, cvars, evars, ovars, tvars>>
besides_o == <<pvars, dvars, rvars, svars, cvars, evars, wvars, tvars>>
besides_t == <<pvars, dvars, rvars, svars, cvars, evars, wvars, ovars>>

vars == <<pvars, dvars, rvars, svars, xvars>>

(***************************************************************************)
(* Bounds of the model.                                                    *)
(***************************************************************************)
\* the longest schema text, counted in lexemes
MaxTokens == 10
\* the longest buffer decoded, in bytes
MaxBuf == 6
\* the longest stream read, in bytes
MaxStream == 6
\* the longest header read byte by byte, in bytes after the magic
MaxHeader == 5
\* the longest body read, in bytes after the separator
MaxBody == 3
\* the longest buffer a BufWalker is called on, in bytes, and the farthest
\* cursor a call is made from
MaxWalk == 4
\* the longest string escaped, in characters
MaxChars == 3
\* the most calls made on a ValueTree
MaxCalls == 6
\* the longest buffer two JsonDisplays decode side by side, in bytes
MaxShared == 3
\* the most scopes open on a ParamStack, and the most entries on its stacks
MaxLevel == 3
MaxEntries == 3

(***************************************************************************)
(* Character classes of the lexer (ast.rs, SchemaLexer).                   *)
(***************************************************************************)
UpperCase == {"A","B","C","D","E","F","G","H","I","J","K","L","M",
              "N","O","P","Q","R","S","T","U","V","W","X","Y","Z"}
LowerCase == {"a","b","c","d","e","f","g","h","i","j","k","l","m",
              "n","o","p","q","r","s","t","u","v","w","x","y","z"}
Digits == {"0","1","2","3","4","5","6","7","8","9"}
NonZeroDigits == Digits \ {"0"}

\* b'0'..=b'9' | b'A'..=b'Z' | b'a'..=b'z' | b'_'  (lex_ident's loop)
IsIdentByte(c) == c \in Digits \cup UpperCase \cup LowerCase \cup {"_"}

DigitValue(c) ==
    CASE c = "0" -> 0 [] c = "1" -> 1 [] c = "2" -> 2 [] c = "3" -> 3
      [] c = "4" -> 4 [] c = "5" -> 5 [] c = "6" -> 6 [] c = "7" -> 7
      [] c = "8" -> 8 [] c = "9" -> 9

DigitChar(d) ==
    CASE d = 0 -> "0" [] d = 1 -> "1" [] d = 2 -> "2" [] d = 3 -> "3"
      [] d = 4 -> "4" [] d = 5 -> "5" [] d = 6 -> "6" [] d = 7 -> "7"
      [] d = 8 -> "8" [] d = 9 -> "9"

(***************************************************************************)
(* usize: str::parse::<usize>() and Display for usize.                     *)
(* usize::MAX = 18446744073709551615 does not fit the integers of TLC,     *)
(* so overflow is decided on the digits: a run of digits that does not     *)
(* start with 0 exceeds usize::MAX iff it is longer, or as long and        *)
(* lexicographically greater.                                              *)
(***************************************************************************)
UsizeMaxDigits ==
    <<"1","8","4","4","6","7","4","4","0","7","3","7","0","9","5","5","1","6","1","5">>

RECURSIVE DigitsGreater(_, _, _)
\* ds > es, for two digit runs of the same length, compared from index i on
DigitsGreater(ds, es, i) ==
    IF i > Len(ds) THEN FALSE
    ELSE IF DigitValue(ds[i]) > DigitValue(es[i]) THEN TRUE
    ELSE IF DigitValue(ds[i]) < DigitValue(es[i]) THEN FALSE
    ELSE DigitsGreater(ds, es, i + 1)

RECURSIVE StripZeros(_)
StripZeros(ds) ==
    IF Len(ds) > 1 /\ ds[1] = "0" THEN StripZeros(Tail(ds)) ELSE ds

\* whether str::parse::<usize>() returns Err(PosOverflow) on the digits ds
ExceedsUsizeMax(s) ==
    \/ Len(s) > Len(UsizeMaxDigits)
    \/ Len(s) = Len(UsizeMaxDigits) /\ DigitsGreater(s, UsizeMaxDigits, 1)
UsizeOverflows(ds) == ExceedsUsizeMax(StripZeros(ds))

RECURSIVE DigitsToNat(_, _)
\* the accumulation loop of str::parse: acc * 10 + digit, left to right
DigitsToNat(ds, acc) ==
    IF ds = <<>> THEN acc
    ELSE DigitsToNat(Tail(ds), acc * 10 + DigitValue(Head(ds)))

RECURSIVE NatToDigits(_)
\* Display for integers: the decimal digits, most significant first
NatToDigits(n) ==
    IF n < 10 THEN <<DigitChar(n)>>
    ELSE Append(NatToDigits(n \div 10), DigitChar(n % 10))

(***************************************************************************)
(* ParamStack (param.rs).                                                  *)
(***************************************************************************)
\* ParamStack::new
ParamStackNew == [level |-> 0, stacks |-> <<>>]

\* ParamStack::contains
ParamContains(p, name) == name \in DOMAIN p.stacks

\* ParamStack::add_entry: insert(name, Vec::new()), replacing an old entry
ParamAddEntry(p, name) ==
    [p EXCEPT !.stacks =
        [k \in (DOMAIN p.stacks) \cup {name} |->
            IF k = name THEN <<>> ELSE p.stacks[k]]]

(***************************************************************************)
(* Ast, AstKind, Len (ast.rs).  A kind is a record                         *)
(*   tag      "Int8" .. "Float64", "Str", "NStr", "Struct", "Array"        *)
(*   n        the size of an NStr, the length of a Fixed array, else 0     *)
(*   ltag     "Fixed" | "Variable" | "Unlimited" for an Array, else "NA"   *)
(*   lname    the name in a Variable length, else <<>>                     *)
(*   children the members of a Struct, <<element>> for an Array            *)
(***************************************************************************)
BuiltinKind(tag) == [tag |-> tag, n |-> 0, ltag |-> "NA", lname |-> <<>>, children |-> <<>>]
NStrKind(size) == [tag |-> "NStr", n |-> size, ltag |-> "NA", lname |-> <<>>, children |-> <<>>]
StructKind(members) ==
    [tag |-> "Struct", n |-> 0, ltag |-> "NA", lname |-> <<>>, children |-> members]
ArrayKind(len, child) ==
    [tag |-> "Array", n |-> len.n, ltag |-> len.ltag, lname |-> len.lname,
     children |-> <<child>>]
LenFixed(n) == [ltag |-> "Fixed", n |-> n, lname |-> <<>>]
LenVariable(s) == [ltag |-> "Variable", n |-> 0, lname |-> s]
LenUnlimited == [ltag |-> "Unlimited", n |-> 0, lname |-> <<>>]
MkAst(name, kind) == [name |-> name, kind |-> kind]

\* the name of the node an array's element is wrapped in
ArrayElementName == <<"[", "]">>

(***************************************************************************)
(* Token, TokenKind, SchemaParseError, Location (ast.rs).                  *)
(***************************************************************************)
Token(kind, s, n, pos) == [kind |-> kind, s |-> s, n |-> n, pos |-> pos]
NoToken == Token("", <<>>, 0, 0)
Location(a, b) == <<a, b>>
SchemaParseError(kind, location) == [kind |-> kind, location |-> location]
NoError == SchemaParseError("", Location(0, 0))

\* what the lexer's next() yields: None, Some(Ok(token)), Some(Err(error)),
\* or a panic inside the lexer
LexNone == [tag |-> "None", tok |-> NoToken, err |-> NoError]
LexOk(tok) == [tag |-> "Ok", tok |-> tok, err |-> NoError]
LexErr(err) == [tag |-> "Err", tok |-> NoToken, err |-> err]
LexPanic == [tag |-> "Panic", tok |-> NoToken, err |-> NoError]

RECURSIVE ScanIdent(_, _)
\* lex_ident's loop: the first offset >= pos that holds no identifier byte
ScanIdent(inp, pos) ==
    IF pos < Len(inp) /\ IsIdentByte(inp[pos + 1]) THEN ScanIdent(inp, pos + 1) ELSE pos

RECURSIVE ScanDigits(_, _)
\* lex_number's loop
ScanDigits(inp, pos) ==
    IF pos < Len(inp) /\ inp[pos + 1] \in Digits THEN ScanDigits(inp, pos + 1) ELSE pos

\* SchemaLexer::lex_ident
lex_ident_to(inp, pos, end) == LexOk(Token("Ident", SubSeq(inp, pos + 1, end), 0, end))
lex_ident(inp, pos) == lex_ident_to(inp, pos, ScanIdent(inp, pos))

\* SchemaLexer::lex_number: parse().unwrap() panics when the digits overflow usize
lex_number_of(ds, end) ==
    IF UsizeOverflows(ds) THEN LexPanic
    ELSE LexOk(Token("Number", <<>>, DigitsToNat(ds, 0), end))
lex_number_to(inp, pos, end) == lex_number_of(SubSeq(inp, pos + 1, end), end)
lex_number(inp, pos) == lex_number_to(inp, pos, ScanDigits(inp, pos))

\* the one-byte tokens of SchemaLexer::next
SymbolKind(c) ==
    CASE c = ":" -> "Colon"
      [] c = "," -> "Comma"
      [] c = "[" -> "LBracket"
      [] c = "]" -> "RBracket"
      [] c = "<" -> "LAngleBracket"
      [] c = ">" -> "RAngleBracket"
      [] c = "{" -> "LBrace"
      [] c = "}" -> "RBrace"
      [] OTHER -> ""

\* SchemaLexer::next, at lexer position pos
LexerNextByte(inp, pos, c) ==
    IF c \in UpperCase \cup LowerCase THEN lex_ident(inp, pos)
    ELSE IF c \in NonZeroDigits THEN lex_number(inp, pos)
    ELSE IF SymbolKind(c) # "" THEN LexOk(Token(SymbolKind(c), <<>>, 0, pos + 1))
    ELSE LexErr(SchemaParseError("UnknownToken", Location(pos, pos + 1)))
LexerNext(inp, pos) ==
    IF pos >= Len(inp) THEN LexNone ELSE LexerNextByte(inp, pos, inp[pos + 1])

(***************************************************************************)
(* SchemaParser (ast.rs).  The parser's state is the lexer's position, the *)
(* location and the parameter table.  The lexer is a function of its       *)
(* position, so Peekable::peek is LexerNext at the position not yet        *)
(* consumed.  A parser function returns                                    *)
(*   tag  "Ok" | "Err" | "Panic"                                           *)
(*   ps   the parser's state afterwards                                    *)
(*   tok  the token returned (next_token)                                  *)
(*   num  the number returned (consume_number)                             *)
(*   kind the AstKind returned (parse_type and the like)                   *)
(*   err  the SchemaParseError of an "Err"                                 *)
(***************************************************************************)
NoKind == BuiltinKind("")
PState(pos, loc, params) == [pos |-> pos, loc |-> loc, params |-> params]
POk(ps) == [tag |-> "Ok", ps |-> ps, tok |-> NoToken, num |-> 0, kind |-> NoKind, err |-> NoError]
POkTok(ps, tok) == [POk(ps) EXCEPT !.tok = tok]
POkNum(ps, n) == [POk(ps) EXCEPT !.num = n]
POkKind(ps, kind) == [POk(ps) EXCEPT !.kind = kind]
PErr(ps, err) == [POk(ps) EXCEPT !.tag = "Err", !.err = err]
PPanic(ps) == [POk(ps) EXCEPT !.tag = "Panic"]

\* SchemaParser::new
SchemaParserNew == PState(0, Location(0, 0), ParamStackNew)

\* update_location keeping the old start instead of the old end
update_location_keeps_start(ps, token) == [ps EXCEPT !.loc = Location(ps.loc[1], token.pos)]

\* SchemaParser::update_location
update_location(ps, token) == [ps EXCEPT !.loc = Location(ps.loc[2], token.pos)]

\* self.lexer.next() returned the token: the lexer stands behind it, and
\* the location is updated
Consumed(ps, token) == update_location([ps EXCEPT !.pos = token.pos], token)

\* err_unexpected_eof pointing at the start of the last token
err_unexpected_eof_at_start(ps) == SchemaParseError("UnexpectedEof", Location(ps.loc[1], 0))

\* SchemaParser::err_unexpected_eof
err_unexpected_eof(ps) == SchemaParseError("UnexpectedEof", Location(ps.loc[2], 0))

\* SchemaParser::err_unexpected_token
err_unexpected_token(ps) == SchemaParseError("UnexpectedToken", ps.loc)

\* SchemaParser::next_token, given what self.lexer.next() returned
next_token_of(ps, lx) ==
    CASE lx.tag = "None" -> PErr(ps, err_unexpected_eof(ps))
      [] lx.tag = "Err" -> PErr(ps, lx.err)
      [] lx.tag = "Panic" -> PPanic(ps)
      [] lx.tag = "Ok" -> POkTok(Consumed(ps, lx.tok), lx.tok)

\* SchemaParser::next_token
next_token(inp, ps) == next_token_of(ps, LexerNext(inp, ps.pos))

\* SchemaParser::consume_next_token, given what self.lexer.next() returned
consume_next_token_of(ps, lx) ==
    CASE lx.tag = "Ok" -> POk(Consumed(ps, lx.tok))
      [] lx.tag = "None" -> PErr(ps, err_unexpected_eof(ps))
      [] OTHER -> PPanic(ps)   \* unreachable!(), or the lexer's own panic

\* SchemaParser::consume_next_token
consume_next_token(inp, ps) == consume_next_token_of(ps, LexerNext(inp, ps.pos))

\* SchemaParser::consume_symbol, given what next_token returned
consume_symbol_of(r, symbol) ==
    IF r.tag # "Ok" THEN r
    ELSE IF r.tok.kind # symbol THEN PErr(r.ps, err_unexpected_token(r.ps))
    ELSE POk(r.ps)

\* SchemaParser::consume_symbol
consume_symbol(inp, ps, symbol) == consume_symbol_of(next_token(inp, ps), symbol)

\* SchemaParser::consume_number, given what next_token returned
consume_number_of(r) ==
    IF r.tag # "Ok" THEN r
    ELSE IF r.tok.kind = "Number" THEN POkNum(r.ps, r.tok.n)
    ELSE PErr(r.ps, err_unexpected_token(r.ps))

\* SchemaParser::consume_number
consume_number(inp, ps) == consume_number_of(next_token(inp, ps))

\* the identifiers parse_builtin_type knows, and the AstKind of each
BuiltinTypeTag(ident) ==
    CASE ident = <<"I","N","T","8">> -> "Int8"
      [] ident = <<"I","N","T","1","6">> -> "Int16"
      [] ident = <<"I","N","T","3","2">> -> "Int32"
      [] ident = <<"U","I","N","T","8">> -> "UInt8"
      [] ident = <<"U","I","N","T","1","6">> -> "UInt16"
      [] ident = <<"U","I","N","T","3","2">> -> "UInt32"
      [] ident = <<"F","L","O","A","T","3","2">> -> "Float32"
      [] ident = <<"F","L","O","A","T","6","4">> -> "Float64"
      [] ident = <<"S","T","R">> -> "Str"
      [] OTHER -> ""

\* SchemaParser::parse_builtin_type
parse_builtin_type(ps, ident) ==
    IF BuiltinTypeTag(ident) = ""
    THEN PErr(ps, SchemaParseError("UnknownBuiltinType", ps.loc))
    ELSE POkKind(ps, BuiltinKind(BuiltinTypeTag(ident)))

\* SchemaParser::parse_nstr_type, from the token after '>' on
parse_nstr_type_name(len, rt) ==
    IF rt.tag # "Ok" THEN rt
    ELSE IF rt.tok.kind = "Ident" /\ rt.tok.s = <<"N","S","T","R">>
         THEN POkKind(rt.ps, NStrKind(len))
         ELSE PErr(rt.ps, err_unexpected_token(rt.ps))

\* SchemaParser::parse_nstr_type, from consume_symbol(RAngleBracket) on
parse_nstr_type_rangle(inp, len, rs) ==
    IF rs.tag # "Ok" THEN rs ELSE parse_nstr_type_name(len, next_token(inp, rs.ps))

\* SchemaParser::parse_nstr_type, from consume_number on
parse_nstr_type_len(inp, rn) ==
    IF rn.tag # "Ok" THEN rn
    ELSE parse_nstr_type_rangle(inp, rn.num, consume_symbol(inp, rn.ps, "RAngleBracket"))

\* SchemaParser::parse_nstr_type
parse_nstr_type(inp, ps) == parse_nstr_type_len(inp, consume_number(inp, ps))

RECURSIVE parse_field_list_loop(_, _, _)
RECURSIVE parse_type(_, _)
RECURSIVE parse_array(_, _)

\* SchemaParser::parse_field_list, the end of the function after the loop
parse_field_list_end(ps, members) ==
    IF members = <<>> THEN PErr(ps, err_unexpected_eof(ps))
    ELSE POkKind(ps, StructKind(members))

\* parse_field_list's loop, from next_token (the comma) on
field_list_comma(inp, members, rn) ==
    IF rn.tag # "Ok" THEN rn
    ELSE IF rn.tok.kind # "Comma" THEN PErr(rn.ps, err_unexpected_token(rn.ps))
    ELSE parse_field_list_loop(inp, rn.ps, members)

\* parse_field_list's loop, from self.lexer.peek() on
field_list_peek(inp, ps, members, pk) ==
    IF pk.tag = "Panic" THEN PPanic(ps)
    ELSE IF pk.tag = "None" THEN parse_field_list_end(ps, members)
    ELSE IF pk.tag = "Ok" /\ pk.tok.kind = "RBracket" THEN parse_field_list_end(ps, members)
    ELSE field_list_comma(inp, members, next_token(inp, ps))

\* parse_field_list's loop, from parse_type on: the member is pushed
field_list_type(inp, members, name, rt) ==
    IF rt.tag # "Ok" THEN rt
    ELSE field_list_peek(inp, rt.ps, Append(members, MkAst(name, rt.kind)),
                         LexerNext(inp, rt.ps.pos))

\* parse_field_list's loop, from consume_symbol(Colon) on
field_list_colon(inp, members, name, rc) ==
    IF rc.tag # "Ok" THEN rc
    ELSE field_list_type(inp, members, name, parse_type(inp, rc.ps))

\* parse_field_list's loop, from the token the while-let took on
field_list_token(inp, ps, members, lx) ==
    CASE lx.tag = "None" -> parse_field_list_end(ps, members)
      [] lx.tag = "Panic" -> PPanic(ps)
      [] lx.tag = "Err" -> PErr(ps, lx.err)
      [] lx.tag = "Ok" ->
            IF lx.tok.kind # "Ident"
            THEN PErr(Consumed(ps, lx.tok), err_unexpected_token(Consumed(ps, lx.tok)))
            ELSE field_list_colon(inp, members, lx.tok.s,
                                  consume_symbol(inp, Consumed(ps, lx.tok), "Colon"))

\* SchemaParser::parse_field_list, one turn of its while-let loop
parse_field_list_loop(inp, ps, members) ==
    field_list_token(inp, ps, members, LexerNext(inp, ps.pos))

\* SchemaParser::parse_field_list
parse_field_list(inp, ps) == parse_field_list_loop(inp, ps, <<>>)

\* parse_type and parse_array, from consume_next_token (the ']') on
bracket_close(kind, rc) ==
    IF rc.tag # "Ok" THEN rc ELSE POkKind(rc.ps, kind)

\* parse_type's LBracket arm, from parse_field_list on
parse_type_struct(inp, rf) ==
    IF rf.tag # "Ok" THEN rf
    ELSE bracket_close(rf.kind, consume_next_token(inp, rf.ps))

\* parse_type, from next_token on
parse_type_of(inp, r) ==
    IF r.tag # "Ok" THEN r
    ELSE CASE r.tok.kind = "Ident" -> parse_builtin_type(r.ps, r.tok.s)
           [] r.tok.kind = "LBracket" -> parse_type_struct(inp, parse_field_list(inp, r.ps))
           [] r.tok.kind = "LAngleBracket" -> parse_nstr_type(inp, r.ps)
           [] r.tok.kind = "LBrace" -> parse_array(inp, r.ps)
           [] OTHER -> PErr(r.ps, err_unexpected_token(r.ps))

\* SchemaParser::parse_type
parse_type(inp, ps) == parse_type_of(inp, next_token(inp, ps))

\* parse_array, from parse_field_list on
parse_array_element(inp, len, rf) ==
    IF rf.tag # "Ok" THEN rf
    ELSE bracket_close(ArrayKind(len, MkAst(ArrayElementName, rf.kind)),
                       consume_next_token(inp, rf.ps))

\* parse_array, from consume_symbol(LBracket) on
parse_array_lbracket(inp, len, rl) ==
    IF rl.tag # "Ok" THEN rl
    ELSE parse_array_element(inp, len, parse_field_list(inp, rl.ps))

\* parse_array, from consume_symbol(RBrace) on
parse_array_rbrace(inp, len, rb) ==
    IF rb.tag # "Ok" THEN rb
    ELSE parse_array_lbracket(inp, len, consume_symbol(inp, rb.ps, "LBracket"))

\* parse_array, from next_token (the length) on
parse_array_len(inp, r) ==
    IF r.tag # "Ok" THEN r
    ELSE CASE r.tok.kind = "Number" ->
                parse_array_rbrace(inp, LenFixed(r.tok.n),
                                   consume_symbol(inp, r.ps, "RBrace"))
           [] r.tok.kind = "Ident" ->
                parse_array_rbrace(inp, LenVariable(r.tok.s),
                    consume_symbol(inp,
                        [r.ps EXCEPT !.params = ParamAddEntry(r.ps.params, r.tok.s)],
                        "RBrace"))
           [] OTHER -> PErr(r.ps, err_unexpected_token(r.ps))

\* SchemaParser::parse_array
parse_array(inp, ps) == parse_array_len(inp, next_token(inp, ps))

\* Schema
MkSchema(ast, params) == [ast |-> ast, params |-> params]
NoSchema == MkSchema(MkAst(<<>>, NoKind), ParamStackNew)

\* what parse returns: Ok(schema), Err(error), or a panic
ParseOk(schema) == [tag |-> "Ok", schema |-> schema, err |-> NoError]
ParseErr(err) == [tag |-> "Err", schema |-> NoSchema, err |-> err]
ParsePanic == [tag |-> "Panic", schema |-> NoSchema, err |-> NoError]
NoParse == [tag |-> "", schema |-> NoSchema, err |-> NoError]

\* parse, from the self.lexer.next() after the field list on
parse_rest(rf, lx) ==
    CASE lx.tag = "None" -> ParseOk(MkSchema(MkAst(<<>>, rf.kind), rf.ps.params))
      [] lx.tag = "Ok" -> ParseErr(err_unexpected_token(Consumed(rf.ps, lx.tok)))
      [] OTHER -> ParsePanic   \* result.unwrap() on a lexer error

\* parse, from parse_field_list on
parse_of(inp, rf) ==
    CASE rf.tag = "Panic" -> ParsePanic
      [] rf.tag = "Err" -> ParseErr(rf.err)
      [] rf.tag = "Ok" -> parse_rest(rf, LexerNext(inp, rf.ps.pos))

\* SchemaParser::parse (Schema::try_from, Schema::from_str)
parse(inp) == parse_of(inp, parse_field_list(inp, SchemaParserNew))

(***************************************************************************)
(* SchemaOnelineDisplay, SchemaOnelineFormatter (visitor.rs).  The result  *)
(* is the text written to the formatter.                                   *)
(***************************************************************************)
\* SchemaOnelineFormatter::write_name
write_name(name) == IF name = ArrayElementName THEN <<>> ELSE name \o <<":">>

\* SchemaOnelineFormatter::visit_builtin, the type's text
OnelineBuiltinText(kind) ==
    CASE kind.tag = "Int8" -> <<"I","N","T","8">>
      [] kind.tag = "Int16" -> <<"I","N","T","1","6">>
      [] kind.tag = "Int32" -> <<"I","N","T","3","2">>
      [] kind.tag = "UInt8" -> <<"U","I","N","T","8">>
      [] kind.tag = "UInt16" -> <<"U","I","N","T","1","6">>
      [] kind.tag = "UInt32" -> <<"U","I","N","T","3","2">>
      [] kind.tag = "Float32" -> <<"F","L","O","A","T","3","2">>
      [] kind.tag = "Float64" -> <<"F","L","O","A","T","6","4">>
      [] kind.tag = "Str" -> <<"S","T","R">>
      [] kind.tag = "NStr" -> <<"<">> \o NatToDigits(kind.n) \o <<">","N","S","T","R">>

\* SchemaOnelineFormatter::visit_array, the length's text
OnelineLenText(kind) ==
    CASE kind.ltag = "Fixed" -> <<"{">> \o NatToDigits(kind.n) \o <<"}">>
      [] kind.ltag = "Variable" -> <<"{">> \o kind.lname \o <<"}">>
      [] kind.ltag = "Unlimited" -> <<"+">>

RECURSIVE OnelineVisit(_)
RECURSIVE OnelineChildren(_, _)

\* SchemaOnelineFormatter::visit_struct, the loop over the children
OnelineChildren(children, i) ==
    IF i > Len(children) THEN <<>>
    ELSE OnelineVisit(children[i])
         \o (IF i < Len(children) THEN <<",">> ELSE <<>>)
         \o OnelineChildren(children, i + 1)

\* AstVisitor::visit with SchemaOnelineFormatter's visit_struct, visit_array, visit_builtin
OnelineVisit(node) ==
    CASE node.kind.tag = "Struct" ->
            IF node.name = <<>>
            THEN OnelineChildren(node.kind.children, 1)
            ELSE write_name(node.name) \o <<"[">>
                 \o OnelineChildren(node.kind.children, 1) \o <<"]">>
      [] node.kind.tag = "Array" ->
            write_name(node.name) \o OnelineLenText(node.kind)
            \o OnelineVisit(node.kind.children[1])
      [] OTHER -> write_name(node.name) \o OnelineBuiltinText(node.kind)

\* SchemaOnelineDisplay::fmt
SchemaOnelineDisplay(ast) == OnelineVisit(ast)



(***************************************************************************)
(* BufWalker (walker.rs) over a buffer buf and a cursor pos.  A read       *)
(* returns the new cursor and the value; a number is kept as its type and  *)
(* its big-endian bytes, a string as its bytes.                            *)
(***************************************************************************)
NoValue == [k |-> "", ty |-> "", bytes |-> <<>>]
ValueNumber(ty, bytes) == [k |-> "Number", ty |-> ty, bytes |-> bytes]
ValueString(bytes) == [k |-> "String", ty |-> "", bytes |-> bytes]

WOk(pos, val) == [tag |-> "Ok", pos |-> pos, val |-> val]
WErr(pos) == [tag |-> "Err", pos |-> pos, val |-> NoValue]
WPanic(pos) == [tag |-> "Panic", pos |-> pos, val |-> NoValue]

NumberKinds == {"Int8", "Int16", "Int32", "UInt8", "UInt16", "UInt32", "Float32", "Float64"}
SignedKinds == {"Int8", "Int16", "Int32"}
FloatKinds == {"Float32", "Float64"}

\* std::mem::size_of::<N>()
SizeOf(ty) ==
    CASE ty \in {"Int8", "UInt8"} -> 1
      [] ty \in {"Int16", "UInt16"} -> 2
      [] ty \in {"Int32", "UInt32", "Float32"} -> 4
      [] ty = "Float64" -> 8

\* BufWalker::new
BufWalkerNew == 0

\* read_number taking the bytes from the moved cursor on
read_number_after(buf, pos, ty) ==
    IF pos + SizeOf(ty) > Len(buf) THEN WErr(pos + SizeOf(ty))
    ELSE WOk(pos + SizeOf(ty),
             ValueNumber(ty, SubSeq(buf \o buf, pos + SizeOf(ty) + 1, pos + 2 * SizeOf(ty))))

\* BufWalker::read_number: the cursor moves before the bounds check
read_number(buf, pos, ty) ==
    IF pos + SizeOf(ty) > Len(buf) THEN WErr(pos + SizeOf(ty))
    ELSE WOk(pos + SizeOf(ty), ValueNumber(ty, SubSeq(buf, pos + 1, pos + SizeOf(ty))))

RECURSIVE skip_str_loop(_, _)
\* BufWalker::skip_str, the loop over &self.buf[self.pos..]
skip_str_loop(buf, pos) ==
    IF pos >= Len(buf) THEN WErr(pos)
    ELSE IF buf[pos + 1] = 0 THEN WOk(pos + 1, NoValue)
    ELSE skip_str_loop(buf, pos + 1)

\* BufWalker::skip_str: slicing from beyond the end panics
skip_str(buf, pos) == IF pos > Len(buf) THEN WPanic(pos) ELSE skip_str_loop(buf, pos)

\* BufWalker::read_str, from skip_str on: the bytes before the NUL
read_str_of(buf, start, r) ==
    IF r.tag # "Ok" THEN r
    ELSE WOk(r.pos, ValueString(SubSeq(buf, start + 1, r.pos - 1)))

\* BufWalker::read_str
read_str(buf, pos) == read_str_of(buf, pos, skip_str(buf, pos))

\* read_nstr leaving the cursor where it was
read_nstr_keeps_pos(buf, pos, size) ==
    IF pos + size > Len(buf) THEN WPanic(pos)
    ELSE WOk(pos, ValueString(SubSeq(buf, pos + 1, pos + size)))

\* BufWalker::read_nstr: no bounds check, the slice panics beyond the end
read_nstr(buf, pos, size) ==
    IF pos + size > Len(buf) THEN WPanic(pos + size)
    ELSE WOk(pos + size, ValueString(SubSeq(buf, pos + 1, pos + size)))

\* BufWalker::read
read(buf, pos, node) ==
    CASE node.kind.tag \in NumberKinds -> read_number(buf, pos, node.kind.tag)
      [] node.kind.tag = "Str" -> read_str(buf, pos)
      [] node.kind.tag = "NStr" -> read_nstr(buf, pos, node.kind.n)
      [] OTHER -> WOk(pos, NoValue)

\* Size (ast.rs)
SizeKnown(n) == [tag |-> "Known", n |-> n]
SizeUnknown == [tag |-> "Unknown", n |-> 0]
SizeUndefined == [tag |-> "Undefined", n |-> 0]

\* Ast::size
size(node) ==
    CASE node.kind.tag \in NumberKinds -> SizeKnown(SizeOf(node.kind.tag))
      [] node.kind.tag = "Str" -> SizeUnknown
      [] node.kind.tag = "NStr" -> SizeKnown(node.kind.n)
      [] OTHER -> SizeUndefined

\* BufWalker::skip, the arms of the match on node.size()
skip_sized(buf, pos, sz) ==
    CASE sz.tag = "Known" -> WOk(pos + sz.n, NoValue)
      [] sz.tag = "Unknown" -> skip_str(buf, pos)
      [] OTHER -> WOk(pos, NoValue)

\* BufWalker::skip
skip(buf, pos, node) == skip_sized(buf, pos, size(node))

\* BufWalker::reached_end
reached_end(buf, pos) == pos >= Len(buf)

RECURSIVE from_be_bytes(_, _)
\* <$ty>::from_be_bytes for the unsigned reading of the bytes
from_be_bytes(bytes, acc) ==
    IF bytes = <<>> THEN acc
    ELSE from_be_bytes(Tail(bytes), acc * 256 + Head(bytes))

\* An integer of up to 32 bits, kept in two halves so that every u32 and
\* every i32 has its place: it stands for hi * 2^16 + lo, 0 <= lo < 2^16.
Wide(hi, lo) == [hi |-> hi, lo |-> lo]

\* the bytes of an integer sign-extended to four bytes
sign_extended(bytes) ==
    [i \in 1..(4 - Len(bytes)) |-> IF bytes[1] >= 128 THEN 255 ELSE 0] \o bytes

\* the bytes of an integer zero-extended to four bytes
zero_extended(bytes) == [i \in 1..(4 - Len(bytes)) |-> 0] \o bytes

\* four bytes as the two halves of an i32 or a u32
wide_from_be_bytes(ty, b) ==
    Wide(IF ty \in SignedKinds /\ b[1] >= 128
         THEN from_be_bytes(SubSeq(b, 1, 2), 0) - 65536
         ELSE from_be_bytes(SubSeq(b, 1, 2), 0),
         from_be_bytes(SubSeq(b, 3, 4), 0))

\* FromBytes::from_be_bytes for the integer types, <$ty>::from_be_bytes of
\* the standard library: the bytes of the type's width, most significant
\* first, signed types in two's complement
int_from_be_bytes(ty, bytes) ==
    wide_from_be_bytes(ty, IF ty \in SignedKinds THEN sign_extended(bytes)
                           ELSE zero_extended(bytes))

\* TryInto<usize> for Number: a negative integer or a float is an error
UsizeOk(v) == [ok |-> TRUE, v |-> v]
UsizeErr == [ok |-> FALSE, v |-> 0]
\* the conversion taking the bytes of any number as an unsigned integer
NumberIntoUsizeUnchecked(n) == UsizeOk(from_be_bytes(n.bytes, 0))

NumberTryIntoUsize(n) ==
    IF n.ty \in FloatKinds THEN UsizeErr
    ELSE IF n.ty \in SignedKinds /\ n.bytes[1] >= 128 THEN UsizeErr
    ELSE UsizeOk(from_be_bytes(n.bytes, 0))

(***************************************************************************)
(* ParamStack (param.rs), the operations used while decoding.              *)
(***************************************************************************)
\* ParamStack::create_scope
create_scope(p) == [p EXCEPT !.level = @ + 1]

RECURSIVE PopAllAtLevel(_, _)
\* clear_scope's loop body taking every entry of the current level
PopAllAtLevel(stack, level) ==
    IF stack = <<>> THEN stack
    ELSE IF stack[Len(stack)][1] = level
    THEN PopAllAtLevel(SubSeq(stack, 1, Len(stack) - 1), level)
    ELSE stack

\* clear_scope's loop body: the top entry goes if it has the current level
PopAtLevel(stack, level) ==
    IF stack = <<>> THEN stack
    ELSE IF stack[Len(stack)][1] = level THEN SubSeq(stack, 1, Len(stack) - 1)
    ELSE stack

\* ParamStack::clear_scope
clear_scope(p) ==
    [level |-> p.level - 1,
     stacks |-> [k \in DOMAIN p.stacks |-> PopAtLevel(p.stacks[k], p.level)]]

\* ParamStack::get_value
OptSome(v) == [some |-> TRUE, v |-> v]
OptNone == [some |-> FALSE, v |-> 0]
get_value(p, name) ==
    IF name \notin DOMAIN p.stacks THEN OptNone
    ELSE IF p.stacks[name] = <<>> THEN OptNone
    ELSE OptSome(p.stacks[name][Len(p.stacks[name])][2])

\* ParamStack::push_value
push_value(p, name, value) ==
    IF name \notin DOMAIN p.stacks THEN p
    ELSE [p EXCEPT !.stacks[name] = Append(@, <<p.level, value>>)]

(***************************************************************************)
(* JsonSerializer (visitor.rs).  The text written to the formatter is kept *)
(* as the sequence of the pieces written: a literal, a field name, a       *)
(* number or a string.  The recursion of visit is kept as a stack of       *)
(* frames, one for each visit_struct or visit_array in progress:           *)
(*   node   the node being visited                                         *)
(*   i      how many children or elements have been started                *)
(*   len    the number of elements of a Fixed or Variable array            *)
(* A frame also records, for the properties below,                         *)
(*   sid    the number of the scope a struct frame opened                  *)
(*   mark   how many decoded parameters were in sight when it opened       *)
(*   want   for a Variable array, the most recently decoded value of its   *)
(*          name among the open scopes, -1 if there is none                *)
(*   src    for a Variable array, the scope that pushed what get_value     *)
(*          returned                                                       *)
(*   start  the cursor when an array frame opened                          *)
(*   leaf0  how many leaves had been read when an array frame opened       *)
(*   head   for an array, the cursor and the params the turn in progress   *)
(*          of its loop started with                                       *)
(***************************************************************************)
Lit(t) == [k |-> "lit", t |-> t, s |-> <<>>, val |-> NoValue]
NamePiece(name) == [k |-> "name", t |-> "", s |-> name, val |-> NoValue]
ValuePiece(val) == [k |-> "value", t |-> "", s |-> <<>>, val |-> val]

\* JsonSerializer::write_newline
write_newline(rule) == IF rule = "Pretty" THEN <<Lit("\n")>> ELSE <<>>

\* JsonSerializer::write_post_colon_space
write_post_colon_space(rule) == IF rule = "Pretty" THEN <<Lit(" ")>> ELSE <<>>

\* JsonSerializer::write_indent
write_indent(rule, level) ==
    IF rule = "Pretty" THEN [j \in 1..level |-> Lit("  ")] ELSE <<>>

\* what a turn of a loop starts with, and no turn started
TurnHead(pos, params) == [pos |-> pos, params |-> params]
NoTurnHead == TurnHead(-1, ParamStackNew)

StructFrame(node, sid, mark) ==
    [node |-> node, i |-> 0, len |-> 0, sid |-> sid, mark |-> mark,
     want |-> -1, src |-> 0, start |-> 0, leaf0 |-> 0, head |-> NoTurnHead]
ArrayFrame(node, len, want, src, start, leaf0) ==
    [node |-> node, i |-> 0, len |-> len, sid |-> 0, mark |-> 0,
     want |-> want, src |-> src, start |-> start, leaf0 |-> leaf0, head |-> NoTurnHead]

\* the array most recently decoded to its end
NoArray == [node |-> MkAst(<<>>, NoKind), count |-> 0, len |-> 0, want |-> -1,
            start |-> 0, end |-> 0, leaves |-> <<>>]

\* JsonSerializer::new.  Beside the fields of the source (walker.pos,
\* params, level, the text written) and the frames, the record keeps the
\* result of visit once it has returned, why it failed, and what the
\* properties below observe: the scopes opened so far, the scope every
\* pushed entry came from, the parameters decoded in the open scopes
\* (log), the names of the leaves read, and the last array completed.
JsonSerializerNew(params) ==
    [pos |-> BufWalkerNew, params |-> params, level |-> 0, out |-> <<>>,
     frames |-> <<>>, result |-> "", cause |-> "",
     nscope |-> 0, origins |-> [k \in DOMAIN params.stacks |-> <<>>],
     log |-> <<>>, leaves |-> <<>>, last |-> NoArray]

\* the params of a Schema whose JsonSerializer changed the very ParamStack
\* it was constructed on
SchemaParamsShared(schema, own) == own

\* the params of a Schema after the JsonSerializer of a JsonDisplay::fmt
\* changed its own: fmt borrows the Schema (&'s Schema) and hands
\* self.schema.params.clone() to JsonSerializer::new
SchemaParams(schema, own) == schema.params

\* the Schema a JsonDisplay borrows, after a step of its serializer s
Borrowed(schema, s) == [schema EXCEPT !.params = SchemaParams(schema, s.params)]

Top(s) == s.frames[Len(s.frames)]
TopIs(s, tag) == IF s.frames = <<>> THEN FALSE ELSE Top(s).node.kind.tag = tag

RECURSIVE InnerScope(_, _)
\* the scope of the innermost visit_struct in progress
InnerScope(frames, i) ==
    IF i = 0 THEN 0
    ELSE IF frames[i].node.kind.tag = "Struct" THEN frames[i].sid
    ELSE InnerScope(frames, i - 1)

RECURSIVE LastLogged(_, _, _)
\* the most recently decoded value of name among the open scopes
LastLogged(log, name, i) ==
    IF i = 0 THEN -1
    ELSE IF log[i][1] = name THEN log[i][2]
    ELSE LastLogged(log, name, i - 1)

\* the scope that pushed the top entry of name's stack
TopOrigin(origins, name) ==
    IF name \notin DOMAIN origins THEN 0
    ELSE IF origins[name] = <<>> THEN 0
    ELSE origins[name][Len(origins[name])]

\* an Err or a panic leaves through every visit in progress (the ? operator)
Fail(s, result, cause) ==
    [s EXCEPT !.result = result, !.cause = cause, !.frames = <<>>]

\* a visit_struct or visit_array returns Ok(()); the outermost one ends visit
Return(s) == IF s.frames = <<>> THEN [s EXCEPT !.result = "Ok"] ELSE s

\* visit_struct up to its loop: "{", create_scope, level.increment
visit_struct_enter(s, rule, node) ==
    [s EXCEPT !.out = @ \o <<Lit("{")>> \o write_newline(rule),
              !.params = create_scope(@),
              !.level = @ + 1,
              !.nscope = @ + 1,
              !.frames = Append(@, StructFrame(node, s.nscope + 1, Len(s.log)))]

\* visit_array up to the choice of the loop: "[", level.increment
visit_array_open(s, rule) ==
    [s EXCEPT !.out = @ \o <<Lit("[")>> \o write_newline(rule),
              !.level = @ + 1]

\* visit_array, the length: Unlimited, Fixed(n), or get_value(s) which is
\* an error when there is none
visit_array_len(s, node, got) ==
    CASE node.kind.ltag = "Unlimited" ->
            [s EXCEPT !.frames = Append(@,
                ArrayFrame(node, 0, -1, 0, s.pos, Len(s.leaves)))]
      [] node.kind.ltag = "Fixed" ->
            [s EXCEPT !.frames = Append(@,
                ArrayFrame(node, node.kind.n, -1, 0, s.pos, Len(s.leaves)))]
      [] node.kind.ltag = "Variable" ->
            IF got.some
            THEN [s EXCEPT !.frames = Append(@,
                    ArrayFrame(node, got.v,
                               LastLogged(s.log, node.kind.lname, Len(s.log)),
                               TopOrigin(s.origins, node.kind.lname),
                               s.pos, Len(s.leaves)))]
            ELSE Fail(s, "Err", "unresolved")

\* visit_array up to its loop
visit_array_enter(s, rule, node) ==
    visit_array_len(visit_array_open(s, rule), node, get_value(s.params, node.kind.lname))

\* visit_builtin, push_value(name, n.try_into()?)
visit_builtin_push(s, name, converted) ==
    IF converted.ok
    THEN [s EXCEPT !.params = push_value(@, name, converted.v),
                   !.origins[name] = Append(@, InnerScope(s.frames, Len(s.frames))),
                   !.log = Append(@, <<name, converted.v>>)]
    ELSE Fail(s, "Err", "parameter")

\* visit_builtin, from params.contains(name) on
visit_builtin_param(s, name, value) ==
    IF ~ParamContains(s.params, name) THEN s
    ELSE IF value.k = "Number" THEN visit_builtin_push(s, name, NumberTryIntoUsize(value))
    ELSE Fail(s, "Err", "parameter")

\* what failed in walker.read
ReadFailure(node) ==
    CASE node.kind.tag \in NumberKinds -> "truncated"
      [] node.kind.tag = "Str" -> "unterminated"
      [] OTHER -> "slice"

\* visit_builtin, from walker.read(node)? on
visit_builtin_value(s, node, r) ==
    CASE r.tag = "Err" -> Fail([s EXCEPT !.pos = r.pos], "Err", ReadFailure(node))
      [] r.tag = "Panic" -> Fail([s EXCEPT !.pos = r.pos], "Panic", ReadFailure(node))
      [] r.tag = "Ok" ->
            visit_builtin_param(
                [s EXCEPT !.pos = r.pos,
                          !.out = Append(@, ValuePiece(r.val)),
                          !.leaves = Append(@, node.name)],
                node.name, r.val)

\* JsonSerializer::visit_builtin
visit_builtin(s, buf, node) == visit_builtin_value(s, node, read(buf, s.pos, node))

\* AstVisitor::visit
visit(s, rule, buf, node) ==
    CASE node.kind.tag = "Struct" -> visit_struct_enter(s, rule, node)
      [] node.kind.tag = "Array" -> visit_array_enter(s, rule, node)
      [] OTHER -> visit_builtin(s, buf, node)

\* visit_struct, one turn of the loop up to visit(child): what follows the
\* child before it, the indent, the child's name
visit_struct_before_child(s, rule, child) ==
    [s EXCEPT !.out = @ \o (IF Top(s).i >= 1 THEN <<Lit(",")>> \o write_newline(rule)
                            ELSE <<>>)
                        \o write_indent(rule, s.level)
                        \o <<NamePiece(child.name)>>
                        \o write_post_colon_space(rule),
              !.frames[Len(s.frames)].i = @ + 1]

\* visit_struct, one turn of the loop
visit_struct_child(s, rule, buf, child) ==
    visit(visit_struct_before_child(s, rule, child), rule, buf, child)

\* visit_struct after its loop: level.decrement, clear_scope, "}"
visit_struct_end(s, rule) ==
    Return([s EXCEPT
        !.out = @ \o (IF Top(s).i >= 1 THEN write_newline(rule) ELSE <<>>)
                  \o write_indent(rule, s.level - 1) \o <<Lit("}")>>,
        !.level = @ - 1,
        !.params = clear_scope(@),
        !.origins = [k \in DOMAIN @ |->
                        SubSeq(@[k], 1, Len(clear_scope(s.params).stacks[k]))],
        !.log = SubSeq(@, 1, Top(s).mark),
        !.frames = SubSeq(@, 1, Len(@) - 1)])

\* the Unlimited loop going on although the buffer is at its end
visit_array_more_past_end(s, buf) ==
    IF Top(s).node.kind.ltag = "Unlimited" THEN s.pos <= Len(buf)
    ELSE Top(s).i < Top(s).len

\* visit_array, whether its loop goes on: while !reached_end() for
\* Unlimited, the iterator over 0..len otherwise
visit_array_more(s, buf) ==
    IF Top(s).node.kind.ltag = "Unlimited" THEN ~reached_end(buf, s.pos)
    ELSE Top(s).i < Top(s).len

\* the loop of an Unlimited array is about to start a turn with the cursor
\* and the params the turn before started with: the walker, the params
\* and the child are all a turn depends on, so this turn and every later
\* one do what the turn before did, and the while loop never ends
visit_array_repeats(s) ==
    /\ Top(s).node.kind.ltag = "Unlimited"
    /\ Top(s).head = TurnHead(s.pos, s.params)

\* a visit that never returns: the loop keeps writing elements
Endless(s) == [s EXCEPT !.result = "Endless", !.cause = "endless"]

\* visit_array, one turn of the loop
visit_array_turn(s, rule, buf) ==
    visit([s EXCEPT !.out = @ \o (IF Top(s).i >= 1
                                  THEN <<Lit(",")>> \o write_newline(rule)
                                  ELSE <<>>)
                              \o write_indent(rule, s.level),
                    !.frames[Len(s.frames)].i = @ + 1,
                    !.frames[Len(s.frames)].head = TurnHead(s.pos, s.params)],
          rule, buf, Top(s).node.kind.children[1])

\* visit_array, the turns of the loop; those of a loop that never ends are
\* followed up to the first that repeats the one before
visit_array_element(s, rule, buf) ==
    IF visit_array_repeats(s) THEN Endless(s) ELSE visit_array_turn(s, rule, buf)

\* visit_array after its loop: level.decrement, "]"
visit_array_end(s, rule) ==
    Return([s EXCEPT
        !.out = @ \o write_newline(rule) \o write_indent(rule, s.level - 1)
                  \o <<Lit("]")>>,
        !.level = @ - 1,
        !.last = [node |-> Top(s).node, count |-> Top(s).i, len |-> Top(s).len,
                  want |-> Top(s).want, start |-> Top(s).start, end |-> s.pos,
                  leaves |-> SubSeq(s.leaves, Top(s).leaf0 + 1, Len(s.leaves))],
        !.frames = SubSeq(@, 1, Len(@) - 1)])

\* the next turn of the innermost visit_struct or visit_array in progress
visit_next(s, rule, buf) ==
    IF TopIs(s, "Struct")
    THEN IF Top(s).i < Len(Top(s).node.kind.children)
         THEN visit_struct_child(s, rule, buf, Top(s).node.kind.children[Top(s).i + 1])
         ELSE visit_struct_end(s, rule)
    ELSE IF visit_array_more(s, buf)
         THEN visit_array_element(s, rule, buf)
         ELSE visit_array_end(s, rule)

RECURSIVE visit_rest(_, _, _)
\* visit from a turn of its loops to its return
visit_rest(s, rule, buf) ==
    IF s.result # "" THEN s ELSE visit_rest(visit_next(s, rule, buf), rule, buf)

\* JsonDisplay::fmt as a whole: the serializer when visit has returned
fmt(schema, rule, buf) ==
    visit_rest(visit(JsonSerializerNew(schema.params), rule, buf, schema.ast), rule, buf)


(***************************************************************************)
(* visit of src/src/lib.rs, the visitor before AstVisitor: it walks a      *)
(* Field and calls f on every leaf; an Array has a fixed len and its       *)
(* element's members.  f is the inc_pos of visitor_basic_functionality,    *)
(* which adds the leaf's size to pos; the names of the leaves it was       *)
(* called on are kept beside pos.                                          *)
(***************************************************************************)
\* inc_pos: Size::Known(size) => pos += size
inc_pos(field, acc) ==
    [pos |-> acc.pos + (IF field.kind.tag = "NStr" THEN field.kind.n
                        ELSE SizeOf(field.kind.tag)),
     leaves |-> Append(acc.leaves, field.name)]

RECURSIVE lib_visit(_, _)
RECURSIVE lib_visit_members(_, _, _)
RECURSIVE lib_visit_elements(_, _, _)

\* visit, the loop over members.iter() or element.iter()
lib_visit_members(members, i, acc) ==
    IF i > Len(members) THEN acc
    ELSE lib_visit_members(members, i + 1, lib_visit(members[i], acc))

\* visit, the loop for _ in 0..(*len)
lib_visit_elements(element, n, acc) ==
    IF n = 0 THEN acc
    ELSE lib_visit_elements(element, n - 1, lib_visit_members(element, 1, acc))

\* visit
lib_visit(field, acc) ==
    CASE field.kind.tag = "Struct" -> lib_visit_members(field.kind.children, 1, acc)
      [] field.kind.tag = "Array" ->
            lib_visit_elements(field.kind.children[1].kind.children, field.kind.n, acc)
      [] OTHER -> inc_pos(field, acc)

(***************************************************************************)
(* DataReader (reader.rs) over a stream of bytes and the cursor of its     *)
(* inner reader.                                                           *)
(***************************************************************************)
\* DataReader::START_MAGIC, START_MAGIC_LEN
START_MAGIC == <<"W", "N", "\n">>
START_MAGIC_LEN == Len(START_MAGIC)

\* the error of find_magic
MagicNotFound == "magic \"WN\\n\" not found"

RECURSIVE read_until_end(_, _, _)
\* BufRead::read_until: where the read stops, after the first delim at or
\* after pos, or at the end of the stream
read_until_end(inner, pos, delim) ==
    IF pos >= Len(inner) THEN Len(inner)
    ELSE IF inner[pos + 1] = delim THEN pos + 1
    ELSE read_until_end(inner, pos + 1, delim)

\* BufRead::read_until: the bytes read
read_until(inner, pos, delim) ==
    SubSeq(inner, pos + 1, read_until_end(inner, pos, delim))

\* find_magic's test, buf being nothing but the magic
ends_with_magic_alone(buf) == buf = START_MAGIC

\* find_magic's test: buf_len >= START_MAGIC_LEN && buf[buf_len - START_MAGIC_LEN..] == *START_MAGIC
ends_with_magic(buf) ==
    IF Len(buf) >= START_MAGIC_LEN
    THEN SubSeq(buf, Len(buf) - START_MAGIC_LEN + 1, Len(buf)) = START_MAGIC
    ELSE FALSE

\* DataReader::SEP_MAGIC, SEP_MAGIC_LEN: the bytes 0x04 and 0x1a, written
\* here by their ASCII names
SEP_MAGIC == <<"EOT", "SUB">>
SEP_MAGIC_LEN == Len(SEP_MAGIC)

\* the errors of read_header_fields
HeaderEof == "unexpected EOF in reading the header"
InvalidLine == "invalid line without an equal character found in the header"

\* the text of a sequence of bytes (String::from_utf8_lossy on ASCII)
RECURSIVE Str(_)
Str(s) == IF s = <<>> THEN "" ELSE Head(s) \o Str(Tail(s))

\* Vec::pop, the value dropped
pop(buf) == IF buf = <<>> THEN buf ELSE SubSeq(buf, 1, Len(buf) - 1)

RECURSIVE position_from(_, _, _)
\* Iterator::position from element i on: the 0-based index of the first c
position_from(buf, c, i) ==
    IF i > Len(buf) THEN OptNone
    ELSE IF buf[i] = c THEN OptSome(i - 1)
    ELSE position_from(buf, c, i + 1)

\* buf.iter().position(|&b| b == c)
position(buf, c) == position_from(buf, c, 1)

\* what the inner loop of read_header_fields leaves: its buf, the position
\* of the inner reader, and whether it returned the EOF error
LineOk(buf, pos) == [eof |-> FALSE, buf |-> buf, pos |-> pos]
LineEof(buf, pos) == [eof |-> TRUE, buf |-> buf, pos |-> pos]

RECURSIVE read_line(_, _, _)
\* read_header_fields, the inner loop after read_until has appended
\* inner[pos..e] to buf
read_line_turn(inner, pos, e, buf) ==
    IF e = pos THEN LineEof(buf, pos)
    ELSE IF Len(buf) < 2 THEN LineOk(buf, e)
    ELSE IF buf[Len(buf) - 1] # "\\" THEN LineOk(buf, e)
    ELSE read_line(inner, e, pop(pop(buf)))

\* read_header_fields, the inner loop: a turn from position pos
read_line_read(inner, pos, e, buf) ==
    read_line_turn(inner, pos, e, buf \o SubSeq(inner, pos + 1, e))

\* read_header_fields, the inner loop
read_line(inner, pos, buf) ==
    read_line_read(inner, pos, read_until_end(inner, pos, "\n"), buf)

\* HashMap::insert
insert(map, key, val) ==
    [k \in (DOMAIN map) \cup {key} |-> IF k = key THEN val ELSE map[k]]

\* what a turn of the outer loop of read_header_fields comes to: "More"
\* after a line, "Sep" after the separator, "Err" with the error returned
HeaderMore(map, pos) == [tag |-> "More", map |-> map, pos |-> pos, err |-> ""]
HeaderSep(map, pos) == [tag |-> "Sep", map |-> map, pos |-> pos, err |-> ""]
HeaderErr(map, pos, err) == [tag |-> "Err", map |-> map, pos |-> pos, err |-> err]

\* read_header_fields: the split of buf at the position found, the bytes
\* before it being the key and the bytes after it the value
header_line_insert(map, buf, at, pos) ==
    IF at.some
    THEN HeaderMore(insert(map, SubSeq(buf, 1, at.v),
                           SubSeq(buf, at.v + 2, Len(buf))), pos)
    ELSE HeaderErr(map, pos, InvalidLine)

\* read_header_fields: buf.iter().position(|&b| b == b'=') and what follows
header_line_split(map, buf, pos) ==
    header_line_insert(map, buf, position(buf, "="), pos)

\* read_header_fields, the outer loop after its inner loop
header_line(map, line) ==
    IF line.eof THEN HeaderErr(map, line.pos, HeaderEof)
    ELSE header_line_split(map, pop(line.buf), line.pos)

\* read_header_fields: one turn of the outer loop
header_turn(inner, pos, map) ==
    IF pos + SEP_MAGIC_LEN > Len(inner) THEN HeaderErr(map, pos, HeaderEof)
    ELSE IF SubSeq(inner, pos + 1, pos + SEP_MAGIC_LEN) = SEP_MAGIC
    THEN HeaderSep(map, pos + SEP_MAGIC_LEN)
    ELSE header_line(map, read_line(inner, pos, <<>>))

(***************************************************************************)
(* DataReaderOptions (reader/options.rs), a set of bits.                   *)
(***************************************************************************)
ENABLE_READING_BODY == 2
IGNORE_DATA_SIZE_FIELD == 4
ALLOW_TRAILING_COMMA == 8

RECURSIVE BitAnd(_, _)
\* self_ & flag
BitAnd(a, b) ==
    IF a = 0 \/ b = 0 THEN 0
    ELSE 2 * BitAnd(a \div 2, b \div 2) + (IF a % 2 = 1 /\ b % 2 = 1 THEN 1 ELSE 0)

\* DataReaderOptions::contains
contains(options, flag) == BitAnd(options, flag) # 0

RECURSIVE BitOr(_, _)
\* self_ | flag
BitOr(a, b) ==
    IF a = 0 THEN b
    ELSE IF b = 0 THEN a
    ELSE 2 * BitOr(a \div 2, b \div 2) + (IF a % 2 = 1 \/ b % 2 = 1 THEN 1 ELSE 0)

\* the sum of the two values
union_sum(self, flag) == self + flag

\* DataReaderOptions::union
union(self, flag) == BitOr(self, flag)

\* BitOr for DataReaderOptions: self.0 | rhs.0
bitor(self, rhs) == BitOr(self, rhs)

\* DataReaderOptions::default(), the derived Default of a u32 newtype
default == 0

(***************************************************************************)
(* Value and ValueTree (value.rs).  The Rc<Value>s a tree holds are kept   *)
(* as a heap, nodes, a value being known by its index; the vec of a Struct *)
(* or an Array holds the indexes of its children.  A call returns          *)
(*   ok     whether it returned Ok                                         *)
(*   tree   the ValueTree after it                                         *)
(*   value  the &Value of an Ok(get), with the children in place            *)
(***************************************************************************)
NoNode == [k |-> "", ty |-> "", bytes |-> <<>>, vec |-> <<>>]
\* Value::new_struct
new_struct == [k |-> "Struct", ty |-> "", bytes |-> <<>>, vec |-> <<>>]
\* Value::new_array
new_array == [k |-> "Array", ty |-> "", bytes |-> <<>>, vec |-> <<>>]
\* Value::Number, Value::String
Leaf(v) == [k |-> v.k, ty |-> v.ty, bytes |-> v.bytes, vec |-> <<>>]

\* ValueTree::new
ValueTreeNew == [nodes |-> <<>>, heads |-> <<>>, completed |-> FALSE]

TreeOk(tree) == [ok |-> TRUE, tree |-> tree, value |-> NoNode]
TreeErr(tree) == [ok |-> FALSE, tree |-> tree, value |-> NoNode]

\* matches!(value, Value::Struct { .. } | Value::Array { .. })
new_layer_created(value) == value.k \in {"Struct", "Array"}

\* self.heads.push(value_rc)
heads_push(self, value) ==
    [self EXCEPT !.nodes = Append(@, value),
                 !.heads = Append(@, Len(self.nodes) + 1)]

\* add_value with a head: the value goes into the head's vec, and onto the
\* heads when it opens a layer
add_value_to(self, head, value) ==
    IF self.nodes[head].k \notin {"Struct", "Array"} THEN TreeErr(self)
    ELSE TreeOk([self EXCEPT
            !.nodes = Append([@ EXCEPT ![head].vec = Append(@, Len(self.nodes) + 1)],
                             value),
            !.heads = IF new_layer_created(value)
                      THEN Append(@, Len(self.nodes) + 1) ELSE @])

\* ValueTree::add_value
add_value(self, value) ==
    IF self.completed THEN TreeErr(self)
    ELSE IF self.heads # <<>>
    THEN add_value_to(self, self.heads[Len(self.heads)], value)
    ELSE IF new_layer_created(value) THEN TreeOk(heads_push(self, value))
    ELSE TreeOk(self)

\* self.heads.pop(), which leaves an empty Vec as it is
heads_pop(heads) == IF heads = <<>> THEN heads ELSE SubSeq(heads, 1, Len(heads) - 1)

\* close_value completing the tree at any close while a layer is open
close_value_any(self) ==
    IF self.completed THEN TreeErr(self)
    ELSE IF Len(self.heads) >= 1 THEN TreeOk([self EXCEPT !.completed = TRUE])
    ELSE TreeOk([self EXCEPT !.heads = heads_pop(@)])

\* ValueTree::close_value
close_value(self) ==
    IF self.completed THEN TreeErr(self)
    ELSE IF Len(self.heads) = 1 THEN TreeOk([self EXCEPT !.completed = TRUE])
    ELSE TreeOk([self EXCEPT !.heads = heads_pop(@)])

RECURSIVE as_ref(_, _)
\* value_rc.as_ref(): the value with the values its vec points to
as_ref(nodes, id) ==
    [nodes[id] EXCEPT !.vec = [i \in 1..Len(nodes[id].vec) |-> as_ref(nodes, nodes[id].vec[i])]]

\* ValueTree::get
get(self) ==
    IF ~self.completed THEN TreeErr(self)
    ELSE IF self.heads = <<>> THEN TreeErr(self)
    ELSE [ok |-> TRUE, tree |-> self, value |-> as_ref(self.nodes, self.heads[1])]

(***************************************************************************)
(* FieldMap and the header fields read looks up.                           *)
(***************************************************************************)
FORMAT == <<"f", "o", "r", "m", "a", "t">>
DATA_SIZE == <<"d", "a", "t", "a", "_", "s", "i", "z", "e">>
COMPRESS_TYPE == <<"c", "o", "m", "p", "r", "e", "s", "s", "_", "t", "y", "p", "e">>
GZIP == <<"g", "z", "i", "p">>
BZIP2 == <<"b", "z", "i", "p", "2">>

\* FieldMap::get_field
get_field(map, name) ==
    IF name \in DOMAIN map THEN OptSome(map[name]) ELSE OptNone

\* the error of FieldMap::get_required_field
FieldNotFound(name) == "\"" \o Str(name) \o "\" field not found"

\* the errors of read and of read_body
NotAnInteger == "\"data_size\" value is not an integer"
BodyEof(len, body_size) ==
    "unexpected EOF in reading body: " \o ToString(len) \o " bytes read; "
        \o ToString(body_size) \o " bytes expected"
UnknownCompressType(s) == "unknown \"compress_type\" field value: " \o Str(s)
GzipFailed(e) == "reading gzip-compressed body failed: " \o e
Bzip2Failed(e) == "reading bzip2-compressed body failed: " \o e

\* str::parse::<usize> after the sign
parse_usize_digits(ds) ==
    IF ds = <<>> THEN UsizeErr
    ELSE IF \E i \in 1..Len(ds) : ds[i] \notin Digits THEN UsizeErr
    ELSE IF UsizeOverflows(ds) THEN UsizeErr
    ELSE UsizeOk(DigitsToNat(ds, 0))

\* str::parse::<usize>: an optional '+' and decimal digits
parse_usize(s) ==
    IF s = <<>> THEN UsizeErr
    ELSE IF s[1] = "+" THEN parse_usize_digits(Tail(s))
    ELSE parse_usize_digits(s)

(***************************************************************************)
(* GzDecoder and BzDecoder.  The codecs are other crates' code; here a     *)
(* compressed stream is the codec's magic byte, the bytes of the payload,  *)
(* none of them the end byte, and the end byte.  Bytes after the end byte  *)
(* are not read.                                                           *)
(***************************************************************************)
GZ_MAGIC == "G"
BZ_MAGIC == "B"
CODEC_END == "."

DecodeOk(out) == [ok |-> TRUE, out |-> out, err |-> ""]
DecodeErr(err) == [ok |-> FALSE, out |-> <<>>, err |-> err]

\* the payload of a stream whose magic has been read
decode_payload(buf, at, eof) ==
    IF at.some THEN DecodeOk(SubSeq(buf, 2, at.v)) ELSE DecodeErr(eof)

\* Read::read_to_end on a decoder over buf
decode(buf, magic, badheader, eof) ==
    IF buf = <<>> THEN DecodeErr(eof)
    ELSE IF buf[1] # magic THEN DecodeErr(badheader)
    ELSE decode_payload(buf, position_from(buf, CODEC_END, 2), eof)

\* GzDecoder::new(&buf[..]).read_to_end(&mut decoded)
gz_decode(buf) == decode(buf, GZ_MAGIC, "invalid gzip header", "unexpected end of file")

\* BzDecoder::new(&buf[..]).read_to_end(&mut decoded)
bz_decode(buf) ==
    decode(buf, BZ_MAGIC, "bzip2: bz2 header missing",
           "decompression not finished but EOF reached")

(***************************************************************************)
(* DataReader::read after read_header_fields, and read_body.  A result is  *)
(*   tag     "Ok" | "Err" | "Panic"                                        *)
(*   err     the message of the Error                                      *)
(*   schema  the Schema parsed from the format field                       *)
(*   raw     read_body's buf when it reached its match on compress_type    *)
(*   body    the body returned                                             *)
(*   pos     the position of the inner reader                              *)
(***************************************************************************)
ReadOk(schema, raw, body, pos) ==
    [tag |-> "Ok", err |-> "", schema |-> schema, raw |-> raw, body |-> body, pos |-> pos]
ReadErr(err, schema, raw, pos) ==
    [tag |-> "Err", err |-> err, schema |-> schema, raw |-> raw, body |-> <<>>, pos |-> pos]
ReadPanic(pos) ==
    [tag |-> "Panic", err |-> "", schema |-> NoSchema, raw |-> <<>>, body |-> <<>>, pos |-> pos]

\* read_body: what a decoder's read_to_end came to
decoded(schema, raw, pos, d, failed) ==
    IF d.ok THEN ReadOk(schema, raw, d.out, pos)
    ELSE ReadErr(failed, schema, raw, pos)

\* read_body: match compress_type.map(|s| s.as_slice())
decompress(schema, buf, pos, compress_type) ==
    IF ~compress_type.some THEN ReadOk(schema, buf, buf, pos)
    ELSE IF compress_type.v = GZIP
    THEN decoded(schema, buf, pos, gz_decode(buf), GzipFailed(gz_decode(buf).err))
    ELSE IF compress_type.v = BZIP2
    THEN decoded(schema, buf, pos, bz_decode(buf), Bzip2Failed(bz_decode(buf).err))
    ELSE ReadErr(UnknownCompressType(compress_type.v), schema, buf, pos)

\* read_body's test with any difference of the lengths failing
too_short_or_long(len, body_size) == len # body_size

\* read_body: len < body_size
too_short(len, body_size) == len < body_size

\* Vec::truncate leaving the Vec as it is
truncate_nothing(buf, len) == buf

\* Vec::truncate
truncate(buf, len) == IF len < Len(buf) THEN SubSeq(buf, 1, len) ELSE buf

\* read_body with the size checked whatever the options are
size_checked_always(options) == TRUE

\* read_body: !self.options.contains(IGNORE_DATA_SIZE_FIELD)
size_checked(options) == ~contains(options, IGNORE_DATA_SIZE_FIELD)

\* read_body with compress_type matched before the size is checked
read_body_matching_first(schema, buf, pos, options, body_size, compress_type) ==
    IF (IF compress_type.some THEN compress_type.v \notin {GZIP, BZIP2} ELSE FALSE)
    THEN ReadErr(UnknownCompressType(compress_type.v), schema, <<>>, pos)
    ELSE IF size_checked(options)
    THEN IF too_short(Len(buf), body_size)
         THEN ReadErr(BodyEof(Len(buf), body_size), schema, <<>>, pos)
         ELSE decompress(schema, truncate(buf, body_size), pos, compress_type)
    ELSE decompress(schema, buf, pos, compress_type)

\* read_body, buf being what read_to_end read and pos where it left the
\* inner reader
read_body(schema, buf, pos, options, body_size, compress_type) ==
    IF size_checked(options)
    THEN IF too_short(Len(buf), body_size)
         THEN ReadErr(BodyEof(Len(buf), body_size), schema, <<>>, pos)
         ELSE decompress(schema, truncate(buf, body_size), pos, compress_type)
    ELSE decompress(schema, buf, pos, compress_type)

\* read: the body with the data_size parsed
read_sized(inner, pos, options, map, schema, body_size) ==
    IF ~body_size.ok THEN ReadErr(NotAnInteger, schema, <<>>, pos)
    ELSE read_body(schema, SubSeq(inner, pos + 1, Len(inner)), Len(inner),
                   options, body_size.v, get_field(map, COMPRESS_TYPE))

\* read: the block under ENABLE_READING_BODY
read_enabled(inner, pos, options, map, schema) ==
    IF ~get_field(map, DATA_SIZE).some
    THEN ReadErr(FieldNotFound(DATA_SIZE), schema, <<>>, pos)
    ELSE read_sized(inner, pos, options, map, schema,
                    parse_usize(get_field(map, DATA_SIZE).v))

\* read reading the body whatever the options are
reads_body_always(options) == TRUE

\* read: self.options.contains(ENABLE_READING_BODY)
reads_body(options) == contains(options, ENABLE_READING_BODY)

\* read: from the schema parsed from the format field on.  The text of the
\* Error made from a SchemaParseError is the kind of that error.
read_schema(inner, pos, options, map, parsed) ==
    IF parsed.tag = "Panic" THEN ReadPanic(pos)
    ELSE IF parsed.tag = "Err" THEN ReadErr(parsed.err.kind, NoSchema, <<>>, pos)
    ELSE IF reads_body(options)
    THEN read_enabled(inner, pos, options, map, parsed.schema)
    ELSE ReadOk(parsed.schema, <<>>, <<>>, pos)

\* read after read_header_fields with the data_size field looked up first
read_fields_data_size_first(inner, pos, options, map) ==
    IF reads_body(options) /\ ~get_field(map, DATA_SIZE).some
    THEN ReadErr(FieldNotFound(DATA_SIZE), NoSchema, <<>>, pos)
    ELSE IF ~get_field(map, FORMAT).some
    THEN ReadErr(FieldNotFound(FORMAT), NoSchema, <<>>, pos)
    ELSE read_schema(inner, pos, options, map, parse(get_field(map, FORMAT).v))

\* read after read_header_fields
read_fields(inner, pos, options, map) ==
    IF ~get_field(map, FORMAT).some
    THEN ReadErr(FieldNotFound(FORMAT), NoSchema, <<>>, pos)
    ELSE read_schema(inner, pos, options, map, parse(get_field(map, FORMAT).v))


(***************************************************************************)
(* The schema texts parse is applied to.  A text is put together from      *)
(* lexemes, at most MaxTokens of them.  Every text is parsed; a lexeme is   *)
(* added only to a text that parse did not reject for something other than *)
(* its end (whatever follows a rejected token is never looked at), and     *)
(* never so that it runs into the identifier or number before it.          *)
(***************************************************************************)
BigNumberLexeme ==
    <<"9","9","9","9","9","9","9","9","9","9","9","9","9","9","9","9","9","9","9","9">>

LexemeSet ==
    { <<"a">>, <<"n">>, <<"I","N","T","8">>, <<"S","T","R">>, <<"N","S","T","R">>,
      <<"2">>, <<"1","0">>, BigNumberLexeme,
      <<":">>, <<",">>, <<"[">>, <<"]">>, <<"<">>, <<">">>, <<"{">>, <<"}">>,
      <<"%">>, <<"+">> }

\* the text can still be continued: parse accepted it or missed only its end
Continuable(r) ==
    IF r.tag = "Ok" THEN TRUE ELSE r.tag = "Err" /\ r.err.kind = "UnexpectedEof"

\* the lexeme stays a token of its own when put after the text
Separate(inp, lx) ==
    IF inp = <<>> THEN TRUE
    ELSE ~(IsIdentByte(inp[Len(inp)]) /\ IsIdentByte(lx[1]))

ParserIdle ==
    /\ input = <<>>
    /\ ntok = 0
    /\ lastlex = <<>>
    /\ pphase = "edit"
    /\ presult = NoParse
    /\ poutput = <<>>
    /\ presult2 = NoParse

DecoderIdle ==
    /\ dschema = NoSchema
    /\ drule = "Minimal"
    /\ dbuf = <<>>
    /\ ser = JsonSerializerNew(ParamStackNew)
    /\ dphase = "idle"
    /\ fmtresult = ""

\* a DataReader that has not read its header yet
HeaderIdle ==
    /\ roptions = 0
    /\ rmap = <<>>
    /\ rschema = NoSchema
    /\ rraw = <<>>
    /\ rbody = <<>>

ReaderIdle ==
    /\ stream = <<>>
    /\ rpos = 0
    /\ mbuf = <<>>
    /\ rphase = "idle"
    /\ rerror = ""
    /\ rmagic = 0
    /\ HeaderIdle

\* a ParamStack nothing has been called on
NoCall == [op |-> "", name |-> <<>>, value |-> 0]
StackIdle ==
    /\ sparams = ParamStackNew
    /\ scall = NoCall
    /\ sgot = OptNone

\* no second JsonDisplay
SecondIdle ==
    /\ dfresh = NoSchema
    /\ ser2 = JsonSerializerNew(ParamStackNew)
    /\ d2phase = "idle"
    /\ fmtresult2 = ""

\* no string to escape
EscapeIdle ==
    /\ einput = <<>>
    /\ eout = <<>>
    /\ ephase = "idle"

\* no BufWalker
NoWalk == [op |-> "", kind |-> NoKind, from |-> 0, tag |-> "", val |-> NoValue]
WalkerIdle ==
    /\ wbuf = <<>>
    /\ wpos = 0
    /\ wlast = NoWalk

\* no option values
NoOp == [op |-> "", flag |-> 0, value |-> 0, holds |-> FALSE]
OptionsIdle ==
    /\ oa = 0
    /\ ob = 0
    /\ olast = NoOp

\* no ValueTree
NoTree == [nodes |-> <<>>, heads |-> <<>>, completed |-> FALSE]
TreeIdle ==
    /\ vtree = NoTree
    /\ vcalls = <<>>
    /\ vlast = NoTree

ExtraIdle ==
    /\ SecondIdle
    /\ EscapeIdle
    /\ WalkerIdle
    /\ OptionsIdle
    /\ TreeIdle

\* Schema::from_str, before there is a text
ParserInit == ParserIdle /\ DecoderIdle /\ ReaderIdle /\ StackIdle /\ ExtraIdle

\* one more lexeme of the schema text
Type(lx) ==
    /\ pphase = "parsed"
    /\ ntok < MaxTokens
    /\ Continuable(presult)
    /\ Separate(input, lx)
    /\ input' = input \o lx
    /\ ntok' = ntok + 1
    /\ lastlex' = lx
    /\ pphase' = "edit"
    /\ presult' = NoParse
    /\ UNCHANGED <<poutput, presult2, dvars, rvars, svars, xvars>>

\* schema.parse::<Schema>()
Parse ==
    /\ pphase = "edit"
    /\ presult' = parse(input)
    /\ pphase' = "parsed"
    /\ UNCHANGED <<input, ntok, lastlex, poutput, presult2, dvars, rvars, svars, xvars>>

\* format!("{}", SchemaOnelineDisplay(&schema.ast))
Format ==
    /\ pphase = "parsed"
    /\ presult.tag = "Ok"
    /\ poutput' = SchemaOnelineDisplay(presult.schema.ast)
    /\ pphase' = "formatted"
    /\ UNCHANGED <<input, ntok, lastlex, presult, presult2, dvars, rvars, svars, xvars>>

\* parsing the formatter's output again
Reparse ==
    /\ pphase = "formatted"
    /\ presult2' = parse(poutput)
    /\ pphase' = "reparsed"
    /\ UNCHANGED <<input, ntok, lastlex, presult, poutput, dvars, rvars, svars, xvars>>

ParserNext ==
    \/ \E lx \in LexemeSet : Type(lx)
    \/ Parse
    \/ Format
    \/ Reparse

ParserSpec == ParserInit /\ [][ParserNext]_vars

(***************************************************************************)
(* The decodes JsonDisplay is applied to: a schema out of a few, parsed    *)
(* from its text by parse, a formatting style, and a buffer of at most     *)
(* MaxBuf bytes out of ByteSet.  Every buffer is rendered; a byte is added *)
(* only to a buffer whose decode read up to its end (what follows the      *)
(* place where a decode stopped is never looked at).  The parser of        *)
(* src/src/ast.rs has no                                                   *)
(* syntax for Len::Unlimited, which the serializer handles; the schemas    *)
(* with an Unlimited array are built as the Ast they stand for.            *)
(***************************************************************************)
\* 0 ends a Str, 2 is a length, 255 is negative as an Int8
ByteSet == {0, 2, 255}

\* the schema texts, each parsed by parse
DecodeSchemaTexts ==
    {
     \* n:UINT8,a:{n}[x:UINT8]  (the spec's example of a Variable length)
     <<"n",":","U","I","N","T","8",",","a",":","{","n","}","[","x",":","U","I","N","T","8","]">>,
     \* n:UINT8,a:{2}[b:{n}[x:UINT8],n:UINT8,n:UINT8]  (a struct that declares its parameter twice)
     <<"n",":","U","I","N","T","8",",","a",":","{","2","}","[","b",":","{","n","}","[","x",":","U","I","N","T","8","]",",","n",":","U","I","N","T","8",",","n",":","U","I","N","T","8","]">>,
     \* a:{2}[n:UINT8,b:{n}[x:UINT8]]  (sibling elements with a parameter each)
     <<"a",":","{","2","}","[","n",":","U","I","N","T","8",",","b",":","{","n","}","[","x",":","U","I","N","T","8","]","]">>,
     \* x:UINT32  (the spec's example of a truncation)
     <<"x",":","U","I","N","T","3","2">>,
     \* a:{2}[x:UINT16,s:<1>NSTR]  (a Fixed array of an element of 3 bytes)
     <<"a",":","{","2","}","[","x",":","U","I","N","T","1","6",",","s",":","<","1",">","N","S","T","R","]">>,
     \* a:{3}[x:UINT8,y:INT8]  (a Fixed array of an element of 2 bytes)
     <<"a",":","{","3","}","[","x",":","U","I","N","T","8",",","y",":","I","N","T","8","]">>,
     \* s:STR,n:INT8,a:{n}[x:UINT8]  (a string and a signed parameter)
     <<"s",":","S","T","R",",","n",":","I","N","T","8",",","a",":","{","n","}","[","x",":","U","I","N","T","8","]">>,
     \* a:{n}[x:UINT8]  (a Variable length nobody decodes)
     <<"a",":","{","n","}","[","x",":","U","I","N","T","8","]">>,
     \* a:{n}[x:UINT8],n:UINT8  (a parameter declared after its array)
     <<"a",":","{","n","}","[","x",":","U","I","N","T","8","]",",","n",":","U","I","N","T","8">>,
     \* a:{1}[n:UINT8],b:{n}[x:UINT8]  (a parameter decoded only in an element that has ended)
     <<"a",":","{","1","}","[","n",":","U","I","N","T","8","]",",","b",":","{","n","}","[","x",":","U","I","N","T","8","]">>,
     \* a:{1}[n:UINT8,n:UINT8],b:{n}[x:UINT8]  (the same, the element declaring it twice)
     <<"a",":","{","1","}","[","n",":","U","I","N","T","8",",","n",":","U","I","N","T","8","]",",","b",":","{","n","}","[","x",":","U","I","N","T","8","]">>,
     \* n:FLOAT32,a:{n}[x:UINT8]  (a float parameter)
     <<"n",":","F","L","O","A","T","3","2",",","a",":","{","n","}","[","x",":","U","I","N","T","8","]">>,
     \* n:<1>NSTR,a:{n}[x:UINT8]  (a string parameter)
     <<"n",":","<","1",">","N","S","T","R",",","a",":","{","n","}","[","x",":","U","I","N","T","8","]">>
    }

\* a:+[<element>], after the fields of head
UnlimitedSchema(head, element) ==
    MkSchema(MkAst(<<>>, StructKind(head \o
        <<MkAst(<<"a">>, ArrayKind(LenUnlimited,
                                   MkAst(ArrayElementName, StructKind(element))))>>)),
             ParamStackNew)

\* b:{len}[x:UINT8]
ArrayOfBytes(len) ==
    MkAst(<<"b">>, ArrayKind(len, MkAst(ArrayElementName,
                                        StructKind(<<MkAst(<<"x">>, BuiltinKind("UInt8"))>>))))

\* a:+[x:UINT8] (the spec's example), a:+[x:UINT16], h:UINT8,a:+[x:UINT16]
UnlimitedSchemas ==
    {UnlimitedSchema(<<>>, <<MkAst(<<"x">>, BuiltinKind("UInt8"))>>),
     UnlimitedSchema(<<>>, <<MkAst(<<"x">>, BuiltinKind("UInt16"))>>),
     UnlimitedSchema(<<MkAst(<<"h">>, BuiltinKind("UInt8"))>>,
                     <<MkAst(<<"x">>, BuiltinKind("UInt16"))>>)}

\* Unlimited arrays whose element may take no byte of the buffer:
\* n:UINT8,a:+[b:{n}[x:UINT8]] and a:+[b:{0}[x:UINT8]]
ZeroByteSchemas ==
    {[UnlimitedSchema(<<MkAst(<<"n">>, BuiltinKind("UInt8"))>>,
                      <<ArrayOfBytes(LenVariable(<<"n">>))>>)
        EXCEPT !.params = ParamAddEntry(ParamStackNew, <<"n">>)],
     UnlimitedSchema(<<>>, <<ArrayOfBytes(LenFixed(0))>>)}

DecodeSchemas ==
    {parse(t).schema : t \in DecodeSchemaTexts} \cup UnlimitedSchemas \cup ZeroByteSchemas

JsonFormattingStyle == {"Minimal", "Pretty"}

\* JsonDisplay::new(schema, buf, rule), before the buffer has its bytes
DecodeInit ==
    /\ ParserIdle
    /\ ExtraIdle
    /\ StackIdle
    /\ ReaderIdle
    /\ dschema \in DecodeSchemas
    /\ drule \in JsonFormattingStyle
    /\ dbuf = <<>>
    /\ ser = JsonSerializerNew(dschema.params)
    /\ dphase = "input"
    /\ fmtresult = ""

\* the decode has looked at every byte of the buffer and would look at one
\* more: it missed bytes, or it returned Ok with the cursor at the end
ReadsOn(s, buf) ==
    IF s.result = "Ok" THEN s.pos = Len(buf)
    ELSE s.cause \in {"truncated", "unterminated", "slice"}

\* one more byte of the buffer, for the next JsonDisplay over it
Feed(b) ==
    /\ dphase = "done"
    /\ Len(dbuf) < MaxBuf
    /\ ReadsOn(ser, dbuf)
    /\ dbuf' = Append(dbuf, b)
    /\ ser' = JsonSerializerNew(dschema.params)
    /\ dphase' = "input"
    /\ fmtresult' = ""
    /\ UNCHANGED <<dschema, drule, pvars, rvars, svars, xvars>>

\* JsonDisplay::fmt: JsonSerializer::new on a clone of the schema's
\* params, and formatter.visit(&self.schema.ast) up to the root's loop
Fmt ==
    /\ dphase = "input"
    /\ ser' = visit(JsonSerializerNew(dschema.params), drule, dbuf, dschema.ast)
    /\ dphase' = "running"
    /\ dschema' = Borrowed(dschema, ser')
    /\ UNCHANGED <<drule, dbuf, fmtresult, pvars, rvars, svars, xvars>>

\* visit_struct: the next child
VisitStructChild ==
    /\ dphase = "running"
    /\ ser.result = ""
    /\ TopIs(ser, "Struct")
    /\ Top(ser).i < Len(Top(ser).node.kind.children)
    /\ ser' = visit_struct_child(ser, drule, dbuf,
                                 Top(ser).node.kind.children[Top(ser).i + 1])
    /\ dschema' = Borrowed(dschema, ser')
    /\ UNCHANGED <<drule, dbuf, dphase, fmtresult, pvars, rvars, svars, xvars>>

\* visit_struct: the children are through
VisitStructEnd ==
    /\ dphase = "running"
    /\ ser.result = ""
    /\ TopIs(ser, "Struct")
    /\ Top(ser).i >= Len(Top(ser).node.kind.children)
    /\ ser' = visit_struct_end(ser, drule)
    /\ dschema' = Borrowed(dschema, ser')
    /\ UNCHANGED <<drule, dbuf, dphase, fmtresult, pvars, rvars, svars, xvars>>

\* visit_array: the next element
VisitArrayElement ==
    /\ dphase = "running"
    /\ ser.result = ""
    /\ TopIs(ser, "Array")
    /\ visit_array_more(ser, dbuf)
    /\ ser' = visit_array_element(ser, drule, dbuf)
    /\ dschema' = Borrowed(dschema, ser')
    /\ UNCHANGED <<drule, dbuf, dphase, fmtresult, pvars, rvars, svars, xvars>>

\* visit_array: the elements are through
VisitArrayEnd ==
    /\ dphase = "running"
    /\ ser.result = ""
    /\ TopIs(ser, "Array")
    /\ ~visit_array_more(ser, dbuf)
    /\ ser' = visit_array_end(ser, drule)
    /\ dschema' = Borrowed(dschema, ser')
    /\ UNCHANGED <<drule, dbuf, dphase, fmtresult, pvars, rvars, svars, xvars>>

\* JsonDisplay::fmt, formatter.visit(..).unwrap(): Ok(()) after a visit
\* that returned Ok, a panic after one that returned Err or panicked
FmtReturn ==
    /\ dphase = "running"
    /\ ser.result \in {"Ok", "Err", "Panic"}
    /\ fmtresult' = IF ser.result = "Ok" THEN "Ok" ELSE "Panic"
    /\ dphase' = "done"
    /\ UNCHANGED <<dschema, drule, dbuf, ser, pvars, rvars, svars, xvars>>

DecodeNext ==
    \/ \E b \in ByteSet : Feed(b)
    \/ Fmt
    \/ VisitStructChild
    \/ VisitStructEnd
    \/ VisitArrayElement
    \/ VisitArrayEnd
    \/ FmtReturn

DecodeSpec == DecodeInit /\ [][DecodeNext]_vars

\* a thread in JsonDisplay::fmt keeps running: nothing in fmt suspends it
DecodeFairSpec == DecodeSpec /\ WF_vars(DecodeNext)

(***************************************************************************)
(* The streams DataReader::read is applied to: every stream of at most     *)
(* MaxStream bytes out of StreamBytes.                                     *)
(***************************************************************************)
StreamBytes == {"W", "N", "\n", "a"}

ReadInit ==
    /\ ParserIdle
    /\ ExtraIdle
    /\ StackIdle
    /\ DecoderIdle
    /\ stream = <<>>
    /\ rpos = 0
    /\ mbuf = <<>>
    /\ rphase = "input"
    /\ rerror = ""
    /\ rmagic = 0
    /\ HeaderIdle

\* one more byte of the stream
Put(c) ==
    /\ rphase = "input"
    /\ Len(stream) < MaxStream
    /\ stream' = Append(stream, c)
    /\ UNCHANGED <<rpos, mbuf, rphase, rerror, rmagic, hvars, pvars, dvars, svars, xvars>>

\* DataReader::read: self.inner.rewind(), and find_magic up to its loop
Rewind ==
    /\ rphase = "input"
    /\ rpos' = 0
    /\ mbuf' = <<>>
    /\ rphase' = "magic"
    /\ UNCHANGED <<stream, rerror, rmagic, hvars, pvars, dvars, svars, xvars>>

\* find_magic, one turn of its loop, line being what read_until appended
FindMagicTurn(line) ==
    /\ rpos' = rpos + Len(line)
    /\ mbuf' = mbuf \o line
    /\ IF Len(line) = 0
       THEN rphase' = "failed" /\ rerror' = MagicNotFound /\ rmagic' = rmagic
       ELSE IF ends_with_magic(mbuf \o line)
       THEN rphase' = "header" /\ rerror' = rerror /\ rmagic' = Len(mbuf \o line)
       ELSE rphase' = rphase /\ rerror' = rerror /\ rmagic' = rmagic

\* find_magic, one turn of its loop
FindMagicLine ==
    /\ rphase = "magic"
    /\ FindMagicTurn(read_until(stream, rpos, "\n"))
    /\ UNCHANGED <<stream, hvars, pvars, dvars, svars, xvars>>

ReadNext ==
    \/ \E c \in StreamBytes : Put(c)
    \/ Rewind
    \/ FindMagicLine

ReadSpec == ReadInit /\ [][ReadNext]_vars


(***************************************************************************)
(* The containers DataReader::read is applied to: the magic, then either   *)
(* at most MaxHeader bytes out of HeaderBytes, or a header of format,      *)
(* data_size and compress_type lines, with or without the separator and a  *)
(* body of at most MaxBody bytes out of BodyBytes.                         *)
(***************************************************************************)
HeaderBytes == {"a", "=", "\\", "\n", "EOT", "SUB"}
BodyBytes == {GZ_MAGIC, BZ_MAGIC, CODEC_END}
OptionSet == {0, ENABLE_READING_BODY, IGNORE_DATA_SIZE_FIELD,
              ENABLE_READING_BODY + IGNORE_DATA_SIZE_FIELD}

\* every sequence of at most n elements of S
SeqsUpTo(S, n) == UNION {[1..k -> S] : k \in 0..n}

\* a header line
Line(key, val) == key \o <<"=">> \o val \o <<"\n">>

FormatLines ==
    {<<>>, Line(FORMAT, <<"a", ":", "I", "N", "T", "8">>), Line(FORMAT, <<"a">>)}
DataSizeLines ==
    {<<>>, Line(DATA_SIZE, <<"2">>), Line(DATA_SIZE, <<"3">>), Line(DATA_SIZE, <<"a">>)}
CompressTypeLines ==
    {<<>>, Line(COMPRESS_TYPE, GZIP), Line(COMPRESS_TYPE, BZIP2),
     Line(COMPRESS_TYPE, <<"a">>)}

FieldHeaders ==
    UNION {{f \o d \o c, d \o f \o c, c \o d \o f} :
           <<f, d, c>> \in FormatLines \X DataSizeLines \X CompressTypeLines}

ContainerStreams ==
    {START_MAGIC \o h : h \in SeqsUpTo(HeaderBytes, MaxHeader)}
    \cup {START_MAGIC \o h : h \in FieldHeaders}
    \cup {START_MAGIC \o h \o SEP_MAGIC \o b :
            h \in FieldHeaders, b \in SeqsUpTo(BodyBytes, MaxBody)}

\* DataReader::new(Cursor::new(stream), options)
ContainerInit ==
    /\ ParserIdle
    /\ ExtraIdle
    /\ StackIdle
    /\ DecoderIdle
    /\ stream \in ContainerStreams
    /\ roptions \in OptionSet
    /\ rpos = 0
    /\ mbuf = <<>>
    /\ rphase = "input"
    /\ rerror = ""
    /\ rmagic = 0
    /\ rmap = <<>>
    /\ rschema = NoSchema
    /\ rraw = <<>>
    /\ rbody = <<>>

\* read_header_fields: what a turn of the outer loop leaves
HeaderTurned(t) ==
    /\ rpos' = t.pos
    /\ rmap' = t.map
    /\ rerror' = t.err
    /\ rphase' = CASE t.tag = "More" -> "header"
                    [] t.tag = "Sep" -> "fields"
                    [] OTHER -> "failed"

\* read_header_fields: one turn of the outer loop
HeaderTurn ==
    /\ rphase = "header"
    /\ HeaderTurned(header_turn(stream, rpos, rmap))
    /\ UNCHANGED <<stream, mbuf, rmagic, roptions, rschema, rraw, rbody, pvars, dvars, svars, xvars>>

\* read: what it returns
ReadReturned(r) ==
    /\ rpos' = r.pos
    /\ rerror' = r.err
    /\ rschema' = r.schema
    /\ rraw' = r.raw
    /\ rbody' = r.body
    /\ rphase' = CASE r.tag = "Ok" -> "done"
                    [] r.tag = "Err" -> "failed"
                    [] OTHER -> "panicked"

\* read after read_header_fields has returned the map
ReadFields ==
    /\ rphase = "fields"
    /\ ReadReturned(read_fields(stream, rpos, roptions, rmap))
    /\ UNCHANGED <<stream, mbuf, rmagic, roptions, rmap, pvars, dvars, svars, xvars>>

ContainerNext ==
    \/ Rewind
    \/ FindMagicLine
    \/ HeaderTurn
    \/ ReadFields

ContainerSpec == ContainerInit /\ [][ContainerNext]_vars


(***************************************************************************)
(* Two JsonDisplays over one Schema and one buffer of at most MaxShared    *)
(* bytes, as two threads would hold them: the turns of their serializers   *)
(* interleave in every order, and each display is formatted again once it  *)
(* is through.  Beside them stands a Schema parsed from the same text that *)
(* no display was given.                                                   *)
(***************************************************************************)
SharedInit ==
    /\ ParserIdle
    /\ StackIdle
    /\ ReaderIdle
    /\ EscapeIdle
    /\ WalkerIdle
    /\ OptionsIdle
    /\ TreeIdle
    /\ \/ \E t \in DecodeSchemaTexts :
            /\ dschema = parse(t).schema
            /\ dfresh = parse(t).schema
       \/ \E u \in UnlimitedSchemas \cup ZeroByteSchemas :
            /\ dschema = u
            /\ dfresh = u
    /\ drule \in JsonFormattingStyle
    /\ dbuf \in SeqsUpTo(ByteSet, MaxShared)
    /\ ser = JsonSerializerNew(dschema.params)
    /\ dphase = "input"
    /\ fmtresult = ""
    /\ ser2 = JsonSerializerNew(dschema.params)
    /\ d2phase = "input"
    /\ fmtresult2 = ""

\* the first display is formatted once more
Refmt ==
    /\ dphase = "done"
    /\ ser' = JsonSerializerNew(dschema.params)
    /\ dphase' = "input"
    /\ fmtresult' = ""
    /\ UNCHANGED <<dschema, drule, dbuf, pvars, rvars, svars, xvars>>

\* JsonDisplay::fmt of the second display, up to the root's loop
Fmt2 ==
    /\ d2phase = "input"
    /\ ser2' = visit(JsonSerializerNew(dschema.params), drule, dbuf, dschema.ast)
    /\ d2phase' = "running"
    /\ dschema' = Borrowed(dschema, ser2')
    /\ UNCHANGED <<drule, dbuf, ser, dphase, fmtresult, dfresh, fmtresult2, besides_c>>

\* a turn of a loop of the second display's visit
Visit2 ==
    /\ d2phase = "running"
    /\ ser2.result = ""
    /\ ser2' = visit_next(ser2, drule, dbuf)
    /\ dschema' = Borrowed(dschema, ser2')
    /\ UNCHANGED <<drule, dbuf, ser, dphase, fmtresult, dfresh, d2phase, fmtresult2,
                   besides_c>>

\* JsonDisplay::fmt of the second display, formatter.visit(..).unwrap()
FmtReturn2 ==
    /\ d2phase = "running"
    /\ ser2.result \in {"Ok", "Err", "Panic"}
    /\ fmtresult2' = IF ser2.result = "Ok" THEN "Ok" ELSE "Panic"
    /\ d2phase' = "done"
    /\ UNCHANGED <<dvars, dfresh, ser2, besides_c>>

\* the second display is formatted once more
Refmt2 ==
    /\ d2phase = "done"
    /\ ser2' = JsonSerializerNew(dschema.params)
    /\ d2phase' = "input"
    /\ fmtresult2' = ""
    /\ UNCHANGED <<dvars, dfresh, besides_c>>

SharedNext ==
    \/ Fmt
    \/ VisitStructChild
    \/ VisitStructEnd
    \/ VisitArrayElement
    \/ VisitArrayEnd
    \/ FmtReturn
    \/ Refmt
    \/ Fmt2
    \/ Visit2
    \/ FmtReturn2
    \/ Refmt2

SharedSpec == SharedInit /\ [][SharedNext]_vars

(***************************************************************************)
(* json_escape_str and json_escape_byte of src/src/utils.rs.  A str is the *)
(* sequence of the bytes (0..255) of its UTF-8 encoding.                   *)
(***************************************************************************)
\* Option<u8>
ByteSome(b) == [some |-> TRUE, b |-> b]
ByteNone == [some |-> FALSE, b |-> 0]

\* json_escape_byte: b't' is 116, b'"' is 0x22 = 34, b'\\' is 0x5c = 92
json_escape_byte(byte) ==
    CASE byte = 8 -> ByteSome(98)
      [] byte = 9 -> ByteSome(116)
      [] byte = 10 -> ByteSome(110)
      [] byte = 12 -> ByteSome(102)
      [] byte = 13 -> ByteSome(114)
      [] byte \in 0..31 \cup {127} -> ByteSome(117)
      [] byte = 34 -> ByteSome(34)
      [] byte = 92 -> ByteSome(92)
      [] OTHER -> ByteNone

\* an upper-case hex digit, as {:X} writes it
UpperHex(d) == IF d < 10 THEN 48 + d ELSE 55 + d

\* format!("\\u{:04X}", byte): a u8 has at most two hex digits
format_u(byte) == <<92, 117, 48, 48, UpperHex(byte \div 16), UpperHex(byte % 16)>>

\* String::push(byte as char): the char whose scalar value is the byte, in
\* UTF-8: one byte below 0x80, two bytes from 0x80 on
push_as_char(byte) ==
    IF byte < 128 THEN <<byte>> ELSE <<192 + (byte \div 64), 128 + (byte % 64)>>

\* the body of the inner loop of json_escape_str, for one byte
escaped_byte(byte, e) ==
    IF ~e.some THEN push_as_char(byte)
    ELSE IF e.b = 117 THEN format_u(byte)
    ELSE <<92>> \o push_as_char(e.b)

RECURSIVE escaped_string(_, _)
\* the inner loop of json_escape_str over input[i..]
escaped_string(str, i) ==
    IF i > Len(str) THEN <<>>
    ELSE escaped_byte(str[i], json_escape_byte(str[i])) \o escaped_string(str, i + 1)

RECURSIVE json_escape_from(_, _)
\* the outer loop of json_escape_str from byte i on: Cow::Borrowed(input)
\* when no byte needs an escape, else input[..i] and the inner loop
json_escape_from(str, i) ==
    IF i > Len(str) THEN str
    ELSE IF json_escape_byte(str[i]).some
         THEN SubSeq(str, 1, i - 1) \o escaped_string(str, i)
    ELSE json_escape_from(str, i + 1)

\* json_escape_str
json_escape_str(str) == json_escape_from(str, 1)

RECURSIVE as_bytes(_)
\* str::as_bytes: the bytes of the characters, one after another
as_bytes(chars) == IF chars = <<>> THEN <<>> ELSE Head(chars) \o as_bytes(Tail(chars))

(***************************************************************************)
(* The strings json_escape_str is applied to: up to MaxChars characters    *)
(* out of EscapeChars, which holds a character of every row of             *)
(* json_escape_byte and one that is not ASCII.                             *)
(***************************************************************************)
\* 0x01, \b, \n, 0x1F, '"', '\\', 'a', 0x7F and U+00E9 (e acute, 0xC3 0xA9)
EscapeChars == {<<1>>, <<8>>, <<10>>, <<31>>, <<34>>, <<92>>, <<97>>, <<127>>, <<195, 169>>}

EscapeInit ==
    /\ ParserIdle
    /\ DecoderIdle
    /\ ReaderIdle
    /\ StackIdle
    /\ SecondIdle
    /\ WalkerIdle
    /\ OptionsIdle
    /\ TreeIdle
    /\ einput = <<>>
    /\ eout = <<>>
    /\ ephase = "edit"

\* one more character of the string
TypeChar(c) ==
    /\ ephase \in {"edit", "escaped"}
    /\ Len(einput) < MaxChars
    /\ einput' = Append(einput, c)
    /\ eout' = <<>>
    /\ ephase' = "edit"
    /\ UNCHANGED besides_e

\* json_escape_str(input)
Escape ==
    /\ ephase = "edit"
    /\ eout' = json_escape_str(as_bytes(einput))
    /\ ephase' = "escaped"
    /\ UNCHANGED <<einput, besides_e>>

EscapeNext ==
    \/ \E c \in EscapeChars : TypeChar(c)
    \/ Escape

EscapeSpec == EscapeInit /\ [][EscapeNext]_vars

(***************************************************************************)
(* The calls made on a BufWalker: read, read_number, read_str, read_nstr   *)
(* and skip in any order from position 0, over every buffer of at most     *)
(* MaxWalk bytes out of WalkBytes.  A call that returned Err leaves a      *)
(* walker that can be called again; a panic ends the calls.  The cursor    *)
(* of a walker may pass the end of its buffer: calls are made from cursors *)
(* up to MaxWalk.                                                          *)
(***************************************************************************)
\* NUL, 1, and 0xFE whose top bit is set
WalkBytes == {0, 1, 254}

IntegerKinds == NumberKinds \ FloatKinds

\* the nodes read and skip are called with
WalkNodes ==
    {MkAst(<<"x">>, BuiltinKind(ty)) : ty \in NumberKinds \cup {"Str"}}
    \cup {MkAst(<<"x">>, NStrKind(n)) : n \in 0..2}
    \cup {MkAst(<<"x">>, StructKind(<<>>)),
          MkAst(<<"x">>, ArrayKind(LenFixed(1), MkAst(ArrayElementName, StructKind(<<>>))))}

\* BufWalker::new(buf)
WalkerInit ==
    /\ ParserIdle
    /\ DecoderIdle
    /\ ReaderIdle
    /\ StackIdle
    /\ SecondIdle
    /\ EscapeIdle
    /\ OptionsIdle
    /\ TreeIdle
    /\ wbuf \in SeqsUpTo(WalkBytes, MaxWalk)
    /\ wpos = BufWalkerNew
    /\ wlast = NoWalk

\* a call on the walker returned r
Walked(op, kind, r) ==
    /\ wlast.tag # "Panic"
    /\ wpos <= MaxWalk
    /\ wpos' = r.pos
    /\ wlast' = [op |-> op, kind |-> kind, from |-> wpos, tag |-> r.tag, val |-> r.val]
    /\ UNCHANGED <<wbuf, besides_w>>

\* walker.read(node)
WalkRead(node) == Walked("read", node.kind, read(wbuf, wpos, node))

\* walker.read_number::<N>()
WalkReadNumber(ty) == Walked("read_number", BuiltinKind(ty), read_number(wbuf, wpos, ty))

\* walker.read_str()
WalkReadStr == Walked("read_str", BuiltinKind("Str"), read_str(wbuf, wpos))

\* walker.read_nstr(n)
WalkReadNstr(n) == Walked("read_nstr", NStrKind(n), read_nstr(wbuf, wpos, n))

\* walker.skip(node)
WalkSkip(node) == Walked("skip", node.kind, skip(wbuf, wpos, node))

WalkerNext ==
    \/ \E node \in WalkNodes : WalkRead(node)
    \/ \E ty \in NumberKinds : WalkReadNumber(ty)
    \/ WalkReadStr
    \/ \E n \in 0..2 : WalkReadNstr(n)
    \/ \E node \in WalkNodes : WalkSkip(node)

WalkerSpec == WalkerInit /\ [][WalkerNext]_vars

(***************************************************************************)
(* DataReaderOptions values and what is computed from them: two values     *)
(* out of OptionValues, their union, their `|`, contains of a flag, and    *)
(* the default value.                                                      *)
(***************************************************************************)
\* every value of the three flags and of the bit below them
OptionValues == 0..(2 * ALLOW_TRAILING_COMMA - 1)

\* the values of one bit, and the empty value
SingleFlags == {1, ENABLE_READING_BODY, IGNORE_DATA_SIZE_FIELD, ALLOW_TRAILING_COMMA}

OptionsInit ==
    /\ ParserIdle
    /\ DecoderIdle
    /\ ReaderIdle
    /\ StackIdle
    /\ SecondIdle
    /\ EscapeIdle
    /\ WalkerIdle
    /\ TreeIdle
    /\ oa \in OptionValues
    /\ ob \in OptionValues
    /\ olast = NoOp

\* a.union(b)
Union ==
    /\ olast' = [op |-> "union", flag |-> ob, value |-> union(oa, ob), holds |-> FALSE]
    /\ UNCHANGED <<oa, ob, besides_o>>

\* a | b
BitOrOp ==
    /\ olast' = [op |-> "bitor", flag |-> ob, value |-> bitor(oa, ob), holds |-> FALSE]
    /\ UNCHANGED <<oa, ob, besides_o>>

\* a.contains(flag)
Contains(flag) ==
    /\ olast' = [op |-> "contains", flag |-> flag, value |-> oa,
                 holds |-> contains(oa, flag)]
    /\ UNCHANGED <<oa, ob, besides_o>>

\* DataReaderOptions::default()
Default ==
    /\ olast' = [op |-> "default", flag |-> 0, value |-> default, holds |-> FALSE]
    /\ UNCHANGED <<oa, ob, besides_o>>

OptionsNext ==
    \/ Union
    \/ BitOrOp
    \/ \E flag \in SingleFlags \cup {0} : Contains(flag)
    \/ Default

OptionsSpec == OptionsInit /\ [][OptionsNext]_vars

(***************************************************************************)
(* The calls made on a ValueTree: add_value of a Struct, an Array, a       *)
(* Number or a String, close_value and get in any order, up to MaxCalls    *)
(* of them.                                                                *)
(***************************************************************************)
TreeValues ==
    {new_struct, new_array, Leaf(ValueNumber("UInt8", <<1>>)), Leaf(ValueString(<<"a">>))}

TreeInit ==
    /\ ParserIdle
    /\ DecoderIdle
    /\ ReaderIdle
    /\ StackIdle
    /\ SecondIdle
    /\ EscapeIdle
    /\ WalkerIdle
    /\ OptionsIdle
    /\ vtree = ValueTreeNew
    /\ vcalls = <<>>
    /\ vlast = ValueTreeNew

\* a call's return goes to the history, the tree it was made on to vlast
Called(op, k, r) ==
    /\ Len(vcalls) < MaxCalls
    /\ vtree' = r.tree
    /\ vcalls' = Append(vcalls, [op |-> op, k |-> k, ok |-> r.ok, value |-> r.value])
    /\ vlast' = vtree
    /\ UNCHANGED besides_t

\* tree.add_value(value)
AddValue(value) == Called("add_value", value.k, add_value(vtree, value))

\* tree.close_value()
CloseValue == Called("close_value", "", close_value(vtree))

\* tree.get()
Get == Called("get", "", get(vtree))

TreeNext ==
    \/ \E value \in TreeValues : AddValue(value)
    \/ CloseValue
    \/ Get

TreeSpec == TreeInit /\ [][TreeNext]_vars

(***************************************************************************)
(* The calls made on a ParamStack: add_entry, create_scope, push_value,    *)
(* clear_scope and get_value in any order, clear_scope only inside a       *)
(* scope, with at most MaxLevel scopes open and MaxEntries entries on the  *)
(* stacks.                                                                 *)
(***************************************************************************)
ParamNames == {<<"p", "1">>, <<"p", "2">>}
ParamValues == {1, 2}

RECURSIVE Entries(_, _)
\* the entries on the stacks of the names
Entries(stacks, names) ==
    IF names = {} THEN 0
    ELSE Len(stacks[CHOOSE k \in names : TRUE])
         + Entries(stacks, names \ {CHOOSE k \in names : TRUE})

\* ParamStack::new()
ParamInit ==
    /\ ParserIdle
    /\ ExtraIdle
    /\ DecoderIdle
    /\ ReaderIdle
    /\ sparams = ParamStackNew
    /\ scall = NoCall
    /\ sgot = OptNone

\* params.add_entry(name)
AddEntry(name) ==
    /\ sparams' = ParamAddEntry(sparams, name)
    /\ scall' = [op |-> "add_entry", name |-> name, value |-> 0]
    /\ sgot' = OptNone
    /\ UNCHANGED <<pvars, dvars, rvars, xvars>>

\* params.create_scope()
CreateScope ==
    /\ sparams.level < MaxLevel
    /\ sparams' = create_scope(sparams)
    /\ scall' = [op |-> "create_scope", name |-> <<>>, value |-> 0]
    /\ sgot' = OptNone
    /\ UNCHANGED <<pvars, dvars, rvars, xvars>>

\* params.push_value(name, value)
PushValue(name, value) ==
    /\ Entries(sparams.stacks, DOMAIN sparams.stacks) < MaxEntries
    /\ sparams' = push_value(sparams, name, value)
    /\ scall' = [op |-> "push_value", name |-> name, value |-> value]
    /\ sgot' = OptNone
    /\ UNCHANGED <<pvars, dvars, rvars, xvars>>

\* params.clear_scope(), inside a scope
ClearScope ==
    /\ sparams.level > 0
    /\ sparams' = clear_scope(sparams)
    /\ scall' = [op |-> "clear_scope", name |-> <<>>, value |-> 0]
    /\ sgot' = OptNone
    /\ UNCHANGED <<pvars, dvars, rvars, xvars>>

\* params.get_value(name)
GetValue(name) ==
    /\ sgot' = get_value(sparams, name)
    /\ scall' = [op |-> "get_value", name |-> name, value |-> 0]
    /\ UNCHANGED <<sparams, pvars, dvars, rvars, xvars>>

ParamNext ==
    \/ \E name \in ParamNames : AddEntry(name)
    \/ CreateScope
    \/ \E name \in ParamNames, value \in ParamValues : PushValue(name, value)
    \/ ClearScope
    \/ \E name \in ParamNames : GetValue(name)

ParamSpec == ParamInit /\ [][ParamNext]_vars

(***************************************************************************)
(* Properties of the parser and the oneline formatter.                     *)
(***************************************************************************)
TokenErrorKinds == {"UnexpectedToken", "UnknownBuiltinType", "UnknownToken"}

\* C1: for every schema text S that parses, the oneline formatter applied to
\* parse(S).ast yields exactly S, and parsing that output again yields a
\* Schema equal to parse(S).
C1_RoundTripExact ==
    /\ pphase \in {"formatted", "reparsed"} => poutput = input
    /\ pphase = "reparsed" => presult2 = presult

\* C6: parse returns a Schema or a SchemaParseError of one of the four kinds;
\* it never panics.
C6_ParseNeverPanics ==
    pphase # "edit" =>
        \/ presult.tag = "Ok"
        \/ /\ presult.tag = "Err"
           /\ presult.err.kind \in TokenErrorKinds \cup {"UnexpectedEof"}

\* C7: an UnexpectedToken, UnknownBuiltinType or UnknownToken error is located
\* at the half-open byte range of the offending token, here the lexeme the
\* text ends with: 0 <= start < end <= length, and input[start..end] is it.
C7_TokenErrorLocation ==
    (pphase = "parsed" /\ presult.tag = "Err" /\ presult.err.kind \in TokenErrorKinds) =>
        LET start == presult.err.location[1]
            end == presult.err.location[2]
        IN  /\ 0 <= start /\ start < end /\ end <= Len(input)
            /\ SubSeq(input, start + 1, end) = lastlex
            /\ end = Len(input)

\* C7's case: an UnknownBuiltinType error for an identifier of several bytes
\* that is not the first token of the text
C7_Witness ==
    /\ pphase = "parsed" /\ presult.tag = "Err"
    /\ presult.err.kind = "UnknownBuiltinType"
    /\ presult.err.location[1] > 0
    /\ Len(lastlex) > 1

\* C8 as stated: an UnexpectedEof error is located at a zero-width point at
\* the end of the input, start = end = length of the input.
C8_EofLocationZeroWidth ==
    (pphase = "parsed" /\ presult.tag = "Err" /\ presult.err.kind = "UnexpectedEof") =>
        presult.err.location = Location(Len(input), Len(input))

\* C8 amended: an UnexpectedEof error has start = length of the input and
\* end = 0.
C8_EofLocation ==
    (pphase = "parsed" /\ presult.tag = "Err" /\ presult.err.kind = "UnexpectedEof") =>
        presult.err.location = Location(Len(input), 0)

\* C8's case: the end of a non-empty text is missed inside a bracket
C8_Witness ==
    /\ pphase = "parsed" /\ presult.tag = "Err" /\ presult.err.kind = "UnexpectedEof"
    /\ Len(input) > 3
    /\ lastlex = <<"[">>

(***************************************************************************)
(* Properties of the JSON serializer.                                      *)
(***************************************************************************)
\* the scopes of the visit_struct calls in progress below frame j
OpenScopes(frames, j) ==
    {frames[k].sid : k \in {h \in 1..(j - 1) : frames[h].node.kind.tag = "Struct"}}

\* C2: an array of length Variable(name) decodes exactly v elements, v being
\* the value of the most recently decoded field called name in the current
\* or a still-open enclosing struct scope.
C2_VariableLengthIsLatestInScope ==
    /\ \A j \in 1..Len(ser.frames) :
          (ser.frames[j].node.kind.ltag = "Variable" /\ ser.frames[j].want >= 0) =>
              /\ ser.frames[j].len = ser.frames[j].want
              /\ ser.frames[j].i <= ser.frames[j].want
    /\ (ser.last.node.kind.ltag = "Variable" /\ ser.last.want >= 0) =>
          ser.last.count = ser.last.want

\* C3: a Variable length inside an element resolves only to a value pushed
\* in a scope that is still open, never to one pushed in a sibling element
\* whose scope has closed.
C3_SiblingScopesIsolated ==
    \A j \in 1..Len(ser.frames) :
        ser.frames[j].node.kind.ltag = "Variable" =>
            ser.frames[j].src \in OpenScopes(ser.frames, j)

RECURSIVE StaticSize(_)
RECURSIVE StaticSizeSum(_, _)
\* the bytes a node takes when that is known from the schema alone, -1 when
\* it is not (a Str, a Variable or Unlimited array, or a node holding one)
StaticSize(node) ==
    CASE node.kind.tag \in NumberKinds -> SizeOf(node.kind.tag)
      [] node.kind.tag = "NStr" -> node.kind.n
      [] node.kind.tag = "Str" -> -1
      [] node.kind.tag = "Struct" -> StaticSizeSum(node.kind.children, 1)
      [] node.kind.tag = "Array" ->
            IF node.kind.ltag # "Fixed" THEN -1
            ELSE IF StaticSize(node.kind.children[1]) < 0 THEN -1
            ELSE node.kind.n * StaticSize(node.kind.children[1])
      [] OTHER -> -1
StaticSizeSum(children, i) ==
    IF i > Len(children) THEN 0
    ELSE IF StaticSize(children[i]) < 0 THEN -1
    ELSE IF StaticSizeSum(children, i + 1) < 0 THEN -1
    ELSE StaticSize(children[i]) + StaticSizeSum(children, i + 1)

\* the size of the element of an array node
ElementSize(node) == StaticSize(node.kind.children[1])

\* the members of the root before its last one, which is the array
HeadSize(schema) ==
    StaticSizeSum(SubSeq(schema.ast.kind.children, 1,
                         Len(schema.ast.kind.children) - 1), 1)

\* the size of the element of the array the root ends with
TailElementSize(schema) ==
    ElementSize(schema.ast.kind.children[Len(schema.ast.kind.children)])

\* the buffer holds the fields before the array and then whole elements
HoldsWholeElements(schema, buf) ==
    /\ Len(buf) >= HeadSize(schema)
    /\ (Len(buf) - HeadSize(schema)) % TailElementSize(schema) = 0

\* C4: an Unlimited array is decoded element after element until the cursor
\* reaches the end of the buffer and stops exactly then: between two
\* elements the cursor is i elements behind the array's start, the array
\* ends with the cursor at the buffer's length, and over a buffer holding k
\* whole elements the decode succeeds with exactly k elements.
C4_UnlimitedUntilEnd ==
    /\ (TopIs(ser, "Array") /\ ser.result = "") =>
          ((Top(ser).node.kind.ltag = "Unlimited" /\ ElementSize(Top(ser).node) > 0) =>
              /\ ser.pos = Top(ser).start + Top(ser).i * ElementSize(Top(ser).node)
              /\ ser.pos <= Len(dbuf))
    /\ (ser.last.node.kind.ltag = "Unlimited" /\ ElementSize(ser.last.node) > 0) =>
          /\ ser.last.end = Len(dbuf)
          /\ ser.last.count * ElementSize(ser.last.node) = ser.last.end - ser.last.start
    /\ (dschema \in UnlimitedSchemas /\ ser.result # "") =>
          (HoldsWholeElements(dschema, dbuf) =>
              /\ ser.result = "Ok"
              /\ ser.pos = Len(dbuf)
              /\ ser.last.count * TailElementSize(dschema) = Len(dbuf) - HeadSize(dschema))

\* C4's case: the decode of a:+[x:UINT8] over three bytes has returned
C4_Witness ==
    /\ dschema \in UnlimitedSchemas
    /\ ser.result = "Ok"
    /\ ser.last.node.kind.ltag = "Unlimited"
    /\ ser.last.count = 3
    /\ Len(dbuf) = 3

\* C5: rendering a schema whose fixed-width scalar needs more bytes than
\* remain ends with an error returned to the caller, never with a panic,
\* at the walker and at JsonDisplay.
C5_TruncationIsAnError ==
    ser.cause = "truncated" =>
        /\ ser.result = "Err"
        /\ dphase = "done" => fmtresult = "Err"

RECURSIVE Repeat(_, _)
\* n times the sequence s
Repeat(s, n) == IF n = 0 THEN <<>> ELSE s \o Repeat(s, n - 1)

RECURSIVE LeafNames(_)
RECURSIVE LeafNamesOf(_, _)
\* the names of the leaves of a node, in declaration order
LeafNames(node) ==
    CASE node.kind.tag = "Struct" -> LeafNamesOf(node.kind.children, 1)
      [] node.kind.tag = "Array" ->
            Repeat(LeafNames(node.kind.children[1]), node.kind.n)
      [] OTHER -> <<node.name>>
LeafNamesOf(children, i) ==
    IF i > Len(children) THEN <<>>
    ELSE LeafNames(children[i]) \o LeafNamesOf(children, i + 1)

\* C9: decoding a Fixed(N) array whose element has a statically known size
\* s advances the cursor by exactly N * s bytes and visits the element's
\* leaves N times in declaration order, in the JSON serializer and in the
\* visit of lib.rs alike.
C9_FixedArrayAdvance ==
    /\ \A j \in 1..Len(ser.frames) :
          ser.frames[j].node.kind.ltag = "Fixed" => ser.frames[j].i <= ser.frames[j].node.kind.n
    /\ (ser.last.node.kind.ltag = "Fixed" /\ ElementSize(ser.last.node) >= 0) =>
          /\ ser.last.count = ser.last.node.kind.n
          /\ ser.last.end - ser.last.start = ser.last.node.kind.n * ElementSize(ser.last.node)
          /\ ser.last.leaves =
                Repeat(LeafNames(ser.last.node.kind.children[1]), ser.last.node.kind.n)
          /\ lib_visit(ser.last.node, [pos |-> ser.last.start, leaves |-> <<>>]) =
                [pos |-> ser.last.end, leaves |-> ser.last.leaves]

\* C9's case: a Fixed(2) array of an element of 3 bytes, an NStr among
\* them, has been decoded to its end
C9_Witness ==
    /\ ser.last.node.kind.ltag = "Fixed"
    /\ ser.last.node.kind.n = 2
    /\ ElementSize(ser.last.node) = 3
    /\ ser.last.end = 6

(***************************************************************************)
(* Properties of the container reader.                                     *)
(***************************************************************************)
\* where a line ending with the magic ends
MagicEnds(s) ==
    {e \in 3..Len(s) : SubSeq(s, e - 2, e) = <<"W", "N", "\n">>}

\* the least element of a non-empty set of numbers
Least(S) == CHOOSE e \in S : \A f \in S : e <= f

\* C10: read starts header parsing right after the first newline-terminated
\* line whose last three bytes are 'W','N','\n', whatever precedes that
\* line, and fails with 'magic "WN\n" not found' if and only if the stream
\* has no such line.
C10_FindMagic ==
    /\ rphase = "header" =>
          /\ MagicEnds(stream) # {}
          /\ rpos = Least(MagicEnds(stream))
          /\ rmagic = rpos
    /\ rphase = "failed" =>
          /\ MagicEnds(stream) = {}
          /\ rerror = MagicNotFound
    /\ rphase = "magic" => \A e \in MagicEnds(stream) : e > rpos

\* C10's case: the magic ends a line that is not the first and that has
\* bytes before the magic, and the stream goes on after it
C10_Witness ==
    /\ rphase = "header"
    /\ rpos < Len(stream)
    /\ \E j \in 1..(rpos - 4) : stream[j] = "\n"
    /\ stream[rpos - 3] # "\n"

RECURSIVE LogicalEnd(_, _)
\* where the logical line holding byte i ends: the first newline from byte
\* i on that no backslash immediately precedes, 0 if there is none
LogicalEnd(s, i) ==
    IF i > Len(s) THEN 0
    ELSE IF s[i] = "\n" /\ (IF i > 1 THEN s[i - 1] # "\\" ELSE TRUE) THEN i
    ELSE LogicalEnd(s, i + 1)

RECURSIVE Unescape(_)
\* a text without its backslash-newline pairs
Unescape(s) ==
    IF Len(s) < 2 THEN s
    ELSE IF s[1] = "\\" /\ s[2] = "\n" THEN Unescape(SubSeq(s, 3, Len(s)))
    ELSE <<s[1]>> \o Unescape(Tail(s))

RECURSIVE HeaderLines(_, _, _)
\* the header of the stream s from offset p on, read as section 4.5 says:
\* the separator probed at the start of each logical line, the line split
\* at its first '='
HeaderLinesAt(s, p, map, e, line) ==
    IF e = 0 THEN HeaderErr(map, p, HeaderEof)
    ELSE IF ~position(line, "=").some THEN HeaderErr(map, p, InvalidLine)
    ELSE HeaderLines(s, e,
            insert(map, SubSeq(line, 1, position(line, "=").v),
                   SubSeq(line, position(line, "=").v + 2, Len(line))))

HeaderLinesTo(s, p, map, e) ==
    HeaderLinesAt(s, p, map, e, IF e = 0 THEN <<>> ELSE Unescape(SubSeq(s, p + 1, e - 1)))

HeaderLines(s, p, map) ==
    IF p + 2 > Len(s) THEN HeaderErr(map, p, HeaderEof)
    ELSE IF SubSeq(s, p + 1, p + 2) = SEP_MAGIC THEN HeaderSep(map, p + 2)
    ELSE HeaderLinesTo(s, p, map, LogicalEnd(s, p + 1))

\* C11: between the magic and the separator, read consumes logical header
\* lines until a line starts with the two bytes 0x04 0x1A: physical lines
\* are joined wherever a backslash immediately precedes the newline (both
\* removed), each logical line is stored as key = bytes before its first
\* '=' and value = every byte after it, a logical line without '=' fails
\* with the invalid-line error, and reaching the end of the stream before
\* the separator fails with 'unexpected EOF in reading the header'.
C11_HeaderLines ==
    /\ rphase = "fields" =>
          /\ HeaderLines(stream, rmagic, <<>>).tag = "Sep"
          /\ HeaderLines(stream, rmagic, <<>>).map = rmap
          /\ HeaderLines(stream, rmagic, <<>>).pos = rpos
    /\ (rphase = "failed" /\ rerror \in {HeaderEof, InvalidLine}) =>
          /\ HeaderLines(stream, rmagic, <<>>).tag = "Err"
          /\ HeaderLines(stream, rmagic, <<>>).err = rerror

\* read has gone through read_header_fields and returned
Returned ==
    \/ rphase = "done"
    \/ rphase = "failed" /\ rerror \notin {MagicNotFound, HeaderEof, InvalidLine}

\* the header has a format field and its value parses
FormatValid ==
    IF FORMAT \in DOMAIN rmap THEN parse(rmap[FORMAT]).tag = "Ok" ELSE FALSE

\* a decimal number: one digit or more, nothing else
IsDecimal(v) == v # <<>> /\ \A i \in 1..Len(v) : v[i] \in Digits

\* C12: read fails with '"format" field not found' whenever the header has
\* no format key; only when ENABLE_READING_BODY is set does it fail with
\* '"data_size" field not found' if data_size is absent and with
\* '"data_size" value is not an integer' if it is not a decimal number; the
\* format lookup and the schema parse come before any data_size check, so a
\* missing or invalid format is reported first.
C12_RequiredFields ==
    Returned =>
        /\ FORMAT \notin DOMAIN rmap =>
              rphase = "failed" /\ rerror = FieldNotFound(FORMAT)
        /\ (FORMAT \in DOMAIN rmap /\ ~FormatValid) =>
              /\ rphase = "failed"
              /\ rerror = parse(rmap[FORMAT]).err.kind
        /\ rerror \in {FieldNotFound(DATA_SIZE), NotAnInteger} =>
              /\ contains(roptions, ENABLE_READING_BODY)
              /\ FormatValid
        /\ (FormatValid /\ contains(roptions, ENABLE_READING_BODY)) =>
              /\ DATA_SIZE \notin DOMAIN rmap =>
                    rphase = "failed" /\ rerror = FieldNotFound(DATA_SIZE)
              /\ (IF DATA_SIZE \in DOMAIN rmap
                  THEN ~IsDecimal(rmap[DATA_SIZE]) ELSE FALSE) =>
                    rphase = "failed" /\ rerror = NotAnInteger

\* C12's case: body reading is enabled, the format does not parse and the
\* data_size is no number, and read reports the format
C12_Witness ==
    /\ Returned
    /\ contains(roptions, ENABLE_READING_BODY)
    /\ FORMAT \in DOMAIN rmap
    /\ DATA_SIZE \in DOMAIN rmap
    /\ ~FormatValid
    /\ ~IsDecimal(rmap[DATA_SIZE])
    /\ rerror = "UnexpectedEof"

\* read has called read_body
Sized ==
    /\ Returned
    /\ contains(roptions, ENABLE_READING_BODY)
    /\ FormatValid
    /\ IF DATA_SIZE \in DOMAIN rmap THEN IsDecimal(rmap[DATA_SIZE]) ELSE FALSE

\* the bytes after the separator, and the number the data_size field declares
Remaining ==
    SubSeq(stream, HeaderLines(stream, rmagic, <<>>).pos + 1, Len(stream))
Declared == DigitsToNat(rmap[DATA_SIZE], 0)

\* the first n bytes of s
Prefix(s, n) == SubSeq(s, 1, IF n < Len(s) THEN n ELSE Len(s))

\* C13 as stated: with the ignore-data-size option unset, read fails
\* whenever the number of bytes remaining after the separator differs from
\* the declared data_size, whether the body is shorter or longer than
\* declared.
C13_SizeMismatchFails ==
    (Sized /\ ~contains(roptions, IGNORE_DATA_SIZE_FIELD)) =>
        (Len(Remaining) # Declared => rphase = "failed")

\* C13, amended: with the ignore-data-size option unset, read fails for the
\* size exactly when fewer bytes remain after the separator than data_size
\* declares; more bytes than declared are no size error.
C13_ShortBodyFails ==
    (Sized /\ ~contains(roptions, IGNORE_DATA_SIZE_FIELD)) =>
        /\ Len(Remaining) < Declared => rphase = "failed"
        /\ rerror = BodyEof(Len(Remaining), Declared) <=> Len(Remaining) < Declared

\* C13's case: more bytes than declared, and read succeeds
C13_Witness ==
    /\ Sized
    /\ ~contains(roptions, IGNORE_DATA_SIZE_FIELD)
    /\ Len(Remaining) > Declared
    /\ rphase = "done"

C15_IgnoreDataSize ==
    (/\ Returned
     /\ contains(roptions, ENABLE_READING_BODY)
     /\ contains(roptions, IGNORE_DATA_SIZE_FIELD)
     /\ FormatValid) =>
        IF DATA_SIZE \notin DOMAIN rmap
        THEN rphase = "failed" /\ rerror = FieldNotFound(DATA_SIZE)
        ELSE IF ~IsDecimal(rmap[DATA_SIZE])
        THEN rphase = "failed" /\ rerror = NotAnInteger
        ELSE /\ rraw = Remaining
             /\ rerror # BodyEof(Len(Remaining), Declared)
             /\ COMPRESS_TYPE \notin DOMAIN rmap =>
                   rphase = "done" /\ rbody = Remaining

\* C15's case: fewer bytes than declared, and all of them are returned
C15_Witness ==
    /\ Sized
    /\ contains(roptions, IGNORE_DATA_SIZE_FIELD)
    /\ Len(Remaining) = 2
    /\ Declared = 3
    /\ rphase = "done"
    /\ rbody = Remaining

\* the bytes read_body keeps of the body
Kept ==
    IF contains(roptions, IGNORE_DATA_SIZE_FIELD) THEN Remaining
    ELSE Prefix(Remaining, Declared)

\* the errors of the two codecs
GzipErrors == {GzipFailed("invalid gzip header"), GzipFailed("unexpected end of file")}
Bzip2Errors ==
    {Bzip2Failed("bzip2: bz2 header missing"),
     Bzip2Failed("decompression not finished but EOF reached")}

\* C16: when body reading is enabled the size check precedes decompression
\* and the validation of compress_type: a body shorter than declared yields
\* the size error whatever compress_type says; a body passing the size
\* check is returned unchanged when compress_type is absent, returned
\* decompressed for gzip and bzip2, fails with the codec's 'reading
\* gzip-compressed/bzip2-compressed body failed' error when decoding fails,
\* and fails with 'unknown "compress_type" field value' for any other
\* value.
C16_SizeBeforeCodec ==
    Sized =>
        IF ~contains(roptions, IGNORE_DATA_SIZE_FIELD) /\ Len(Remaining) < Declared
        THEN rphase = "failed" /\ rerror = BodyEof(Len(Remaining), Declared)
        ELSE IF COMPRESS_TYPE \notin DOMAIN rmap
        THEN rphase = "done" /\ rbody = Kept
        ELSE IF rmap[COMPRESS_TYPE] = GZIP
        THEN IF gz_decode(Kept).ok
             THEN rphase = "done" /\ rbody = gz_decode(Kept).out
             ELSE rphase = "failed" /\ rerror \in GzipErrors
        ELSE IF rmap[COMPRESS_TYPE] = BZIP2
        THEN IF bz_decode(Kept).ok
             THEN rphase = "done" /\ rbody = bz_decode(Kept).out
             ELSE rphase = "failed" /\ rerror \in Bzip2Errors
        ELSE /\ rphase = "failed"
             /\ rerror = UnknownCompressType(rmap[COMPRESS_TYPE])

\* C16's case: the body is shorter than declared and compress_type is
\* unknown, and read reports the size
C16_Witness ==
    /\ Sized
    /\ ~contains(roptions, IGNORE_DATA_SIZE_FIELD)
    /\ Len(Remaining) < Declared
    /\ COMPRESS_TYPE \in DOMAIN rmap
    /\ rmap[COMPRESS_TYPE] = <<"a">>
    /\ rerror = BodyEof(Len(Remaining), Declared)

\* C17: without ENABLE_READING_BODY, read returns an empty body and succeeds
\* whenever the magic, the header lines, the separator and the format
\* schema are valid: data_size and compress_type are not consulted, and no
\* byte after the separator is read or decompressed.
C17_HeaderOnly ==
    (Returned /\ ~contains(roptions, ENABLE_READING_BODY) /\ FormatValid) =>
        /\ rphase = "done"
        /\ rbody = <<>>
        /\ rraw = <<>>
        /\ rpos = HeaderLines(stream, rmagic, <<>>).pos
        /\ rschema = parse(rmap[FORMAT]).schema

\* C17's case: a data_size that is no number, an unknown compress_type and
\* bytes after the separator, and read succeeds
C17_Witness ==
    /\ rphase = "done"
    /\ ~contains(roptions, ENABLE_READING_BODY)
    /\ DATA_SIZE \in DOMAIN rmap
    /\ COMPRESS_TYPE \in DOMAIN rmap
    /\ rmap[DATA_SIZE] = <<"a">>
    /\ rmap[COMPRESS_TYPE] = <<"a">>
    /\ rpos + 3 = Len(stream)

(***************************************************************************)
(* Properties of the parameters of the JSON serializer.                    *)
(***************************************************************************)
\* the schema texts whose Variable length names a field that is never
\* declared, declared after the array, or declared only in an element that
\* has ended when the array is reached
UnresolvedTexts ==
    {<<"a",":","{","n","}","[","x",":","U","I","N","T","8","]">>,
     <<"a",":","{","n","}","[","x",":","U","I","N","T","8","]",",","n",":","U","I","N","T","8">>,
     <<"a",":","{","1","}","[","n",":","U","I","N","T","8","]",",","b",":","{","n","}","[","x",":","U","I","N","T","8","]">>,
     <<"a",":","{","1","}","[","n",":","U","I","N","T","8",",","n",":","U","I","N","T","8","]",",","b",":","{","n","}","[","x",":","U","I","N","T","8","]">>}

\* C18: parse accepts a Variable array length naming any identifier,
\* declared or not and before or after the array, and decoding such an
\* array when no value for that name is visible (the name never occurs as
\* a field, the field is declared after the array, or its value was pushed
\* only in a scope that has already closed) fails with an error instead of
\* decoding zero elements or panicking.
C18_UnresolvedLengthFails ==
    /\ UnresolvedTexts \subseteq DecodeSchemaTexts
    /\ \A t \in UnresolvedTexts : parse(t).tag = "Ok"
    /\ \A j \in 1..Len(ser.frames) :
          ser.frames[j].node.kind.ltag = "Variable" => ser.frames[j].want >= 0
    /\ ser.last.node.kind.ltag = "Variable" => ser.last.want >= 0
    /\ ser.cause = "unresolved" =>
          /\ ser.result = "Err"
          /\ fmtresult \in {"", "Err"}

\* the visit_struct calls in progress
StructFrames(frames) ==
    {k \in 1..Len(frames) : frames[k].node.kind.tag = "Struct"}

\* a decoded value that is an integer >= 0
IsNonNegativeInteger(val) ==
    /\ val.k = "Number"
    /\ val.ty \notin FloatKinds
    /\ val.ty \in SignedKinds => val.bytes[1] < 128

\* what visit_builtin does to the parameters when it has read the value val
\* of the field name
ParameterStep(name, val) ==
    IF name \notin DOMAIN ser.params.stacks
    THEN ser'.params = ser.params /\ ser'.result = ""
    ELSE IF IsNonNegativeInteger(val)
    THEN /\ ser'.result = ""
         /\ ser'.params.level = ser.params.level
         /\ ser.params.level = Cardinality(StructFrames(ser.frames))
         /\ ser'.params.stacks =
                [ser.params.stacks EXCEPT ![name] =
                    Append(@, <<ser.params.level, from_be_bytes(val.bytes, 0)>>)]
    ELSE /\ ser'.result = "Err"
         /\ ser'.cause = "parameter"
         /\ ser'.params = ser.params

\* C19: when the JSON serializer decodes a builtin field whose name is a
\* registered parameter, it pushes the decoded value at the current scope
\* level, in the step that reads it and so before any later sibling or
\* descendant array is decoded, if the value is an integer >= 0, and fails
\* with an error if the value is negative, a float or a string; a field
\* whose name is not registered pushes nothing.
C19_ParameterPushed ==
    [][Len(ser'.leaves) = Len(ser.leaves) + 1 =>
          ParameterStep(ser'.leaves[Len(ser'.leaves)], ser'.out[Len(ser'.out)].val)]_vars

\* C19's case: a parameter decoded inside an element is on its stack with
\* the level of the element's scope
C19_Witness ==
    /\ <<"n">> \in DOMAIN ser.params.stacks
    /\ ser.params.level = 2
    /\ ser.params.stacks[<<"n">>] = <<<<2, 2>>>>
    /\ ser.result = ""

(***************************************************************************)
(* Properties of ParamStack.                                               *)
(***************************************************************************)
\* a stack without its top entry
ButLast(stack) == SubSeq(stack, 1, Len(stack) - 1)

\* what a call does to the stacks, the level and the value returned, as
\* section 4.2 describes the parameter table
ParamModelStep ==
    CASE scall'.op = "add_entry" ->
            /\ sparams'.level = sparams.level
            /\ DOMAIN sparams'.stacks = DOMAIN sparams.stacks \cup {scall'.name}
            /\ sparams'.stacks[scall'.name] = <<>>
            /\ \A k \in DOMAIN sparams.stacks \ {scall'.name} :
                  sparams'.stacks[k] = sparams.stacks[k]
      [] scall'.op = "create_scope" ->
            /\ sparams'.level = sparams.level + 1
            /\ sparams'.stacks = sparams.stacks
      [] scall'.op = "push_value" ->
            /\ sparams'.level = sparams.level
            /\ DOMAIN sparams'.stacks = DOMAIN sparams.stacks
            /\ \A k \in DOMAIN sparams.stacks :
                  sparams'.stacks[k] =
                      IF k = scall'.name
                      THEN sparams.stacks[k] \o <<<<sparams.level, scall'.value>>>>
                      ELSE sparams.stacks[k]
      [] scall'.op = "clear_scope" ->
            /\ sparams'.level = sparams.level - 1
            /\ DOMAIN sparams'.stacks = DOMAIN sparams.stacks
            /\ \A k \in DOMAIN sparams.stacks :
                  sparams'.stacks[k] =
                      IF sparams.stacks[k] = <<>> THEN <<>>
                      ELSE IF sparams.stacks[k][Len(sparams.stacks[k])][1] = sparams.level
                      THEN ButLast(sparams.stacks[k])
                      ELSE sparams.stacks[k]
      [] scall'.op = "get_value" ->
            /\ sparams' = sparams
            /\ IF scall'.name \notin DOMAIN sparams.stacks THEN ~sgot'.some
               ELSE IF sparams.stacks[scall'.name] = <<>> THEN ~sgot'.some
               ELSE /\ sgot'.some
                    /\ sgot'.v = sparams.stacks[scall'.name][Len(sparams.stacks[scall'.name])][2]
      [] OTHER -> FALSE

\* C20: for every sequence of add_entry, create_scope, push_value,
\* clear_scope and get_value calls with at least as many create_scope as
\* clear_scope at every point, ParamStack behaves as the spec's model:
\* add_entry(name) leaves name registered with an empty stack, push_value
\* changes nothing for an unregistered name and otherwise pushes (current
\* level, value), clear_scope removes from each stack the top entry iff its
\* recorded level equals the level being closed and then decrements the
\* level, and get_value returns the value on top of the name's stack or
\* none.
C20_ParamStackModel == [][ParamModelStep]_svars

\* C20's case, from the test scope: p1 pushed at levels 1 and 3, and the
\* scope of level 3 cleared
C20_Witness ==
    /\ scall.op = "clear_scope"
    /\ sparams.level = 2
    /\ <<"p", "1">> \in DOMAIN sparams.stacks
    /\ sparams.stacks[<<"p", "1">>] = <<<<1, 1>>>>
    /\ <<"p", "2">> \in DOMAIN sparams.stacks
    /\ sparams.stacks[<<"p", "2">>] = <<<<2, 2>>, <<2, 1>>>>

(***************************************************************************)
(* C21: rendering JSON never modifies the Schema.                          *)
(***************************************************************************)
\* a ParamStack at level 0 whose stacks are all empty
Untouched(p) ==
    /\ p.level = 0
    /\ \A k \in DOMAIN p.stacks : p.stacks[k] = <<>>

\* the serializer s of a display that is through came to what the decode
\* of the fresh Schema comes to: the same text written, the same result
SameAsFresh(s) ==
    /\ s.out = fmt(dfresh, drule, dbuf).out
    /\ s.result = fmt(dfresh, drule, dbuf).result

\* C21: whatever two JsonDisplays over one Schema and one buffer do, in
\* sequence or with their steps interleaved, the Schema stays as parsed
\* (its ParamStack at level 0 with empty stacks), and every decode that
\* is through wrote the same text and returned the same result as a
\* decode of a freshly parsed Schema over that buffer.
C21_SchemaNeverModified ==
    /\ dschema = dfresh
    /\ Untouched(dschema.params)
    /\ (dphase = "done" => SameAsFresh(ser))
    /\ (d2phase = "done" => SameAsFresh(ser2))

\* C21 witness: one display is through with a decode that pushed a
\* parameter and read an array of its length, while the other display is
\* in the middle of its own decode with an entry on its clone's stack
C21_Witness ==
    /\ dphase = "done"
    /\ fmtresult = "Ok"
    /\ ser.last.want > 0
    /\ d2phase = "running"
    /\ ser2.result = ""
    /\ \E k \in DOMAIN ser2.params.stacks : ser2.params.stacks[k] # <<>>

(***************************************************************************)
(* C22: JSON decoding terminates.                                          *)
(***************************************************************************)
\* C22: every JsonDisplay::fmt that has started returns, with its output
\* or with an error, for every schema and every buffer, the Unlimited
\* arrays whose element takes no byte of the buffer included.
C22_DecodeTerminates == (dphase = "running") ~> (dphase = "done")

(***************************************************************************)
(* C23: json_escape_str maps every character on its own.                   *)
(***************************************************************************)
\* what the claim has one character become: the short forms, \u00XX for
\* the other control bytes and 0x7F, a backslash before '"' and '\\', and
\* the character itself otherwise
EscapedChar(c) ==
    IF Len(c) > 1 THEN c
    ELSE CASE c[1] = 8 -> <<92, 98>>
           [] c[1] = 9 -> <<92, 116>>
           [] c[1] = 10 -> <<92, 110>>
           [] c[1] = 12 -> <<92, 102>>
           [] c[1] = 13 -> <<92, 114>>
           [] c[1] < 32 \/ c[1] = 127 ->
                <<92, 117, 48, 48, UpperHex(c[1] \div 16), UpperHex(c[1] % 16)>>
           [] c[1] = 34 \/ c[1] = 92 -> <<92, c[1]>>
           [] OTHER -> c

RECURSIVE EscapedChars(_)
EscapedChars(chars) ==
    IF chars = <<>> THEN <<>> ELSE EscapedChar(Head(chars)) \o EscapedChars(Tail(chars))

\* C23: json_escape_str maps every character of its input independently
\* of the others: the short forms for 0x08, 0x09, 0x0A, 0x0C, 0x0D, \u00XX
\* for every other byte of 0x00..0x1F and 0x7F, a backslash before '"'
\* and '\\', and every other character, the non-ASCII ones included,
\* unchanged whether or not the string holds characters to escape.
C23_EscapePerCharacter ==
    ephase = "escaped" => eout = EscapedChars(einput)

(***************************************************************************)
(* C24: read_number for the integer types.                                 *)
(***************************************************************************)
\* the bytes left from a cursor on, none when the cursor is beyond the end
BytesFrom(buf, from) == IF from >= Len(buf) THEN 0 ELSE Len(buf) - from

\* the unsigned big-endian value of up to three bytes, or of four whose
\* first is below 0x80
Unsigned(bytes) ==
    IF bytes = <<>> THEN 0
    ELSE bytes[Len(bytes)] + 256 * (IF Len(bytes) = 1 THEN 0
         ELSE bytes[Len(bytes) - 1] + 256 * (IF Len(bytes) = 2 THEN 0
         ELSE bytes[Len(bytes) - 2] + 256 * (IF Len(bytes) = 3 THEN 0
         ELSE bytes[Len(bytes) - 3])))

\* the value the claim gives the bytes, as the two halves of Wide: the
\* unsigned big-endian value, less 2^(8w) for a signed type whose top bit
\* is set (the two's complement reading)
BigEndianValue(ty, bytes) ==
    IF ty \in SignedKinds
    THEN IF bytes[1] >= 128
         THEN Wide((Unsigned(<<bytes[1] - 256>> \o Tail(bytes))) \div 65536,
                   (Unsigned(<<bytes[1] - 256>> \o Tail(bytes))) % 65536)
         ELSE Wide(Unsigned(bytes) \div 65536, Unsigned(bytes) % 65536)
    ELSE IF Len(bytes) = 4
         THEN Wide(Unsigned(SubSeq(bytes, 1, 2)), Unsigned(SubSeq(bytes, 3, 4)))
         ELSE Wide(0, Unsigned(bytes))

\* C24: read_number for an integer type of width w returns, when at least
\* w bytes remain, the big-endian value of the w bytes at the cursor (two's
\* complement for Int8/16/32, unsigned for UInt8/16/32) and advances the
\* cursor by exactly w; when fewer than w bytes remain it returns an error.
C24_ReadNumber ==
    (wlast.op = "read_number" /\ wlast.kind.tag \in IntegerKinds) =>
        IF BytesFrom(wbuf, wlast.from) >= SizeOf(wlast.kind.tag)
        THEN /\ wlast.tag = "Ok"
             /\ wpos = wlast.from + SizeOf(wlast.kind.tag)
             /\ wlast.val.k = "Number"
             /\ int_from_be_bytes(wlast.val.ty, wlast.val.bytes) =
                    BigEndianValue(wlast.kind.tag,
                                   SubSeq(wbuf, wlast.from + 1,
                                          wlast.from + SizeOf(wlast.kind.tag)))
        ELSE wlast.tag = "Err"

\* C24 witness: an Int16 read at cursor 1 from the bytes FE 01 gave -511
\* (-1 * 2^16 + 65025), after the read of one byte before it
C24_Witness ==
    /\ wlast.op = "read_number"
    /\ wlast.kind.tag = "Int16"
    /\ wlast.from = 1
    /\ wlast.tag = "Ok"
    /\ wlast.val.bytes = <<254, 1>>
    /\ int_from_be_bytes(wlast.val.ty, wlast.val.bytes) = Wide(-1, 65025)
    /\ wpos = 3

(***************************************************************************)
(* C26: the walker's cursor stays within the buffer.                       *)
(***************************************************************************)
\* the bytes a call needs when that is known before it reads: the width of
\* a number, the n of an NStr; -1 for a Str, a Struct and an Array
Required(kind) ==
    CASE kind.tag \in NumberKinds -> SizeOf(kind.tag)
      [] kind.tag = "NStr" -> kind.n
      [] OTHER -> -1

\* C26: after any sequence of walker calls from position 0, a call that
\* returned success leaves the cursor at a position <= the buffer length,
\* and read_nstr(n) and skip of a node of known size return an error (no
\* panic, no success with the cursor out of range) when fewer than the
\* required bytes remain.
C26_CursorWithinBuffer ==
    /\ wlast.tag = "Ok" => wpos <= Len(wbuf)
    /\ (/\ wlast.op \in {"read_nstr", "skip"}
        /\ Required(wlast.kind) >= 0
        /\ BytesFrom(wbuf, wlast.from) < Required(wlast.kind)) =>
            wlast.tag = "Err"

(***************************************************************************)
(* C27: skip and read agree.                                               *)
(***************************************************************************)
\* the cursor one past the first NUL at or after from, -1 when there is none
RECURSIVE PastNul(_, _)
PastNul(buf, from) ==
    IF from >= Len(buf) THEN -1
    ELSE IF buf[from + 1] = 0 THEN from + 1
    ELSE PastNul(buf, from + 1)

\* where the claim has read and skip leave the cursor
CursorAfter(buf, from, kind) ==
    CASE kind.tag \in NumberKinds -> from + SizeOf(kind.tag)
      [] kind.tag = "NStr" -> from + kind.n
      [] kind.tag = "Str" -> PastNul(buf, from)
      [] OTHER -> from

\* the last call was op on a node of a kind and returned r; the other of
\* read and skip, called from the same cursor, returns the same way
AgreesWith(r, other, buf, from, kind) ==
    /\ (r.tag = "Ok") <=> (other.tag = "Ok")
    /\ r.tag = "Ok" =>
          /\ r.pos = other.pos
          /\ r.pos = CursorAfter(buf, from, kind)

\* C27: for every builtin node kind and every cursor, skip(node) succeeds
\* exactly when read(node) succeeds from the same cursor and both leave the
\* cursor at the same position: advanced by the scalar's width, by n for
\* NStr(n), to one past the first NUL for Str (read returning the bytes
\* before that NUL); for Struct and Array both leave the cursor unchanged.
C27_SkipMatchesRead ==
    /\ wlast.op = "skip" =>
          AgreesWith([tag |-> wlast.tag, pos |-> wpos],
                     read(wbuf, wlast.from, MkAst(<<"x">>, wlast.kind)),
                     wbuf, wlast.from, wlast.kind)
    /\ wlast.op = "read" =>
          /\ AgreesWith([tag |-> wlast.tag, pos |-> wpos],
                        skip(wbuf, wlast.from, MkAst(<<"x">>, wlast.kind)),
                        wbuf, wlast.from, wlast.kind)
          /\ (wlast.tag = "Ok" /\ wlast.kind.tag = "Str") =>
                wlast.val = ValueString(SubSeq(wbuf, wlast.from + 1, wpos - 1))

(***************************************************************************)
(* C25: DataReaderOptions flags compose as a set.                          *)
(***************************************************************************)
\* the single flags an option value contains
FlagsOf(a) == {f \in SingleFlags : contains(a, f)}

\* C25: for all option values a, b and every single flag f, union is
\* commutative and idempotent, a.union(b).contains(f) equals a.contains(f)
\* or b.contains(f), the default value contains no flag, contains of the
\* empty option value is false for every a, and `|` returns what union
\* returns.
C25_OptionsComposeAsSet ==
    /\ olast.op = "union" =>
          /\ olast.value = union(ob, oa)
          /\ oa = ob => olast.value = oa
          /\ \A f \in SingleFlags :
                contains(olast.value, f) <=> (contains(oa, f) \/ contains(ob, f))
    /\ olast.op = "bitor" =>
          olast.value = union(oa, ob)
    /\ olast.op = "default" => FlagsOf(olast.value) = {}
    /\ (olast.op = "contains" /\ olast.flag = 0) => ~olast.holds
    /\ (olast.op = "contains" /\ olast.flag # 0) => (olast.holds <=> olast.flag \in FlagsOf(oa))

\* C25 witness: the union of two values that share a flag and each have
\* one of their own
C25_Witness ==
    /\ olast.op = "union"
    /\ oa = IGNORE_DATA_SIZE_FIELD + ALLOW_TRAILING_COMMA
    /\ ob = ENABLE_READING_BODY + IGNORE_DATA_SIZE_FIELD
    /\ olast.value = ENABLE_READING_BODY + IGNORE_DATA_SIZE_FIELD + ALLOW_TRAILING_COMMA
    /\ FlagsOf(olast.value) = {ENABLE_READING_BODY, IGNORE_DATA_SIZE_FIELD, ALLOW_TRAILING_COMMA}

\* a comma of the text that no field follows: the text ends after it, or
\* the closing bracket of its field list comes next
TrailingComma(text) ==
    \E i \in 1..Len(text) :
        /\ text[i] = ","
        /\ (i = Len(text) \/ text[i + 1] = "]")

\* C28: a field list that ends with a trailing comma is rejected with a
\* parse error, at the top level ("a:INT8,") and inside brackets
\* ("a:[b:INT8,]"); a comma is accepted only when another field follows it.
\* The parser takes no option, so no leniency is ever enabled.
C28_TrailingCommaRejected ==
    (pphase = "parsed" /\ TrailingComma(input)) => presult.tag = "Err"

\* every entry on every stack of the ParamStack was recorded at a level
\* no higher than the current one
EntriesWithinLevel(p) ==
    \A k \in DOMAIN p.stacks :
        \A i \in 1..Len(p.stacks[k]) : p.stacks[k][i][1] <= p.level

\* C29: in every state reachable during JSON decoding every entry on every
\* parameter stack has a recorded level <= the current level, and when a
\* decode completes successfully the level is back at 0 and every stack is
\* empty; for all schemas, including structs that declare the same
\* parameter-named field more than once.
C29_ParamStackScoped ==
    /\ dphase \in {"running", "done"} => EntriesWithinLevel(ser.params)
    /\ (dphase \in {"running", "done"} /\ ser.result = "Ok") =>
          /\ ser.params.level = 0
          /\ \A k \in DOMAIN ser.params.stacks : ser.params.stacks[k] = <<>>

RECURSIVE ClosedAt(_, _, _)
\* the call, from the i-th on with d containers open, that closes the root:
\* an add_value of a Struct or an Array opens a container, a close_value
\* closes the container opened last, and one made with nothing open closes
\* nothing; 0 when the root is never closed
ClosedAt(calls, i, d) ==
    IF i > Len(calls) THEN 0
    ELSE IF calls[i].op = "add_value" /\ calls[i].k \in {"Struct", "Array"}
    THEN ClosedAt(calls, i + 1, d + 1)
    ELSE IF calls[i].op = "close_value"
    THEN IF d = 1 THEN i ELSE ClosedAt(calls, i + 1, IF d = 0 THEN 0 ELSE d - 1)
    ELSE ClosedAt(calls, i + 1, d)

\* the root had been opened and closed before the i-th call
FrozenBefore(calls, i) ==
    ClosedAt(calls, 1, 0) # 0 /\ ClosedAt(calls, 1, 0) < i

\* C30: for every sequence of add_value and close_value calls on a
\* ValueTree, get succeeds if and only if a root container was opened and
\* every opened container, the root included, has been closed by its own
\* close_value; from then on the tree is frozen: add_value and close_value
\* return an error and leave the tree unchanged, and get keeps returning the
\* same root.
C30_TreeCompletes ==
    /\ \A i \in 1..Len(vcalls) :
          /\ vcalls[i].op = "get" => (vcalls[i].ok <=> FrozenBefore(vcalls, i))
          /\ (vcalls[i].op # "get" /\ FrozenBefore(vcalls, i)) => ~vcalls[i].ok
          /\ \A j \in 1..Len(vcalls) :
                (vcalls[i].op = "get" /\ vcalls[j].op = "get" /\ vcalls[i].ok /\ vcalls[j].ok)
                    => vcalls[i].value = vcalls[j].value
    /\ (vcalls # <<>> /\ FrozenBefore(vcalls, Len(vcalls))) => vtree = vlast

\* C30 witness: get returns a root that has a child, an add_value after
\* that is refused, and the get after it returns the same root
C30_Witness ==
    /\ Len(vcalls) = MaxCalls
    /\ vcalls[MaxCalls].op = "get" /\ vcalls[MaxCalls].ok
    /\ vcalls[MaxCalls].value.vec # <<>>
    /\ vcalls[MaxCalls - 1].op = "add_value" /\ ~vcalls[MaxCalls - 1].ok
    /\ vcalls[MaxCalls - 2].op = "get" /\ vcalls[MaxCalls - 2].ok
    /\ vtree = vlast

====
